---- MODULE Spec2Model ----
(***************************************************************************)
(* Name resolution of the name-address validation service:                 *)
(* NameValidator (core/validators.py) and ValidationService.validate_names *)
(* (core/services.py).                                                     *)
(*                                                                         *)
(* A Python str is a sequence of one-character strings, so that lower(),   *)
(* strip(), split(), title(), the substring test and the regular           *)
(* expressions of the source are computed character by character.  The     *)
(* Python value None is the distinguished value None below.  A confidence  *)
(* is an integer number of points; confidenceScore, which the source       *)
(* formats with four decimals, is a number of ten-thousandths of a point.  *)
(***************************************************************************)
EXTENDS Integers, Sequences, FiniteSets, TLC

(***************************************************************************)
(* Python str and re primitives                                            *)
(***************************************************************************)
LowerAlpha ==
  <<"a","b","c","d","e","f","g","h","i","j","k","l","m",
    "n","o","p","q","r","s","t","u","v","w","x","y","z">>

UpperAlpha ==
  <<"A","B","C","D","E","F","G","H","I","J","K","L","M",
    "N","O","P","Q","R","S","T","U","V","W","X","Y","Z">>

LowerLetters == {LowerAlpha[i] : i \in DOMAIN LowerAlpha}

UpperLetters == {UpperAlpha[i] : i \in DOMAIN UpperAlpha}

Digits == {"0","1","2","3","4","5","6","7","8","9"}

Whitespace == {" ", "\t"}

Punctuation == {".", "-", "'", ",", "&"}

\* The one character U+0131, LATIN SMALL LETTER DOTLESS I: a lowercase letter
\* outside a-z whose upper() is the ASCII letter I.
DotlessI == "U+0131"

AllChars ==
  LowerLetters \cup UpperLetters \cup Digits \cup Whitespace \cup Punctuation
    \cup {"_", DotlessI}

lowerOf ==
  [c \in AllChars |->
     IF c \in UpperLetters
     THEN LowerAlpha[CHOOSE i \in DOMAIN UpperAlpha : UpperAlpha[i] = c]
     ELSE c]

upperOf ==
  [c \in AllChars |->
     IF c \in LowerLetters
     THEN UpperAlpha[CHOOSE i \in DOMAIN LowerAlpha : LowerAlpha[i] = c]
     ELSE IF c = DotlessI THEN "I"
     ELSE c]

None == <<"None">>

IsSpace(c) == c \in Whitespace

IsLowerAZ(c) == c \in LowerLetters

IsCased(c) == c \in LowerLetters \cup UpperLetters \cup {DotlessI}

IsWord(c) == c \in LowerLetters \cup UpperLetters \cup Digits \cup {"_", DotlessI}

StrLower(s) == [i \in 1..Len(s) |-> lowerOf[s[i]]]

StrUpper(s) == [i \in 1..Len(s) |-> upperOf[s[i]]]

StrTitle(s) ==
  [i \in 1..Len(s) |->
     IF i = 1 \/ ~IsCased(s[i-1]) THEN upperOf[s[i]] ELSE lowerOf[s[i]]]

RECURSIVE LStrip(_)
LStrip(s) == IF s # <<>> /\ IsSpace(Head(s)) THEN LStrip(Tail(s)) ELSE s

RECURSIVE RStrip(_)
RStrip(s) ==
  IF s # <<>> /\ IsSpace(s[Len(s)]) THEN RStrip(SubSeq(s, 1, Len(s) - 1)) ELSE s

StrStrip(s) == RStrip(LStrip(s))

RECURSIVE RStripDot(_)
RStripDot(s) ==
  IF s # <<>> /\ s[Len(s)] = "." THEN RStripDot(SubSeq(s, 1, Len(s) - 1)) ELSE s

\* The position reached from p by skipping a maximal run of whitespace.
RECURSIVE SkipSpaces(_, _)
SkipSpaces(s, p) ==
  IF p < Len(s) /\ IsSpace(s[p+1]) THEN SkipSpaces(s, p + 1) ELSE p

\* The position reached from p by skipping a maximal run of [a-z].
RECURSIVE SkipLowers(_, _)
SkipLowers(s, p) ==
  IF p < Len(s) /\ IsLowerAZ(s[p+1]) THEN SkipLowers(s, p + 1) ELSE p

\* The position reached from p by skipping a maximal run of non-whitespace.
RECURSIVE SkipToken(_, _)
SkipToken(s, p) ==
  IF p < Len(s) /\ ~IsSpace(s[p+1]) THEN SkipToken(s, p + 1) ELSE p

\* str.split(): the maximal runs of non-whitespace characters, in order.
RECURSIVE SplitFrom(_, _)
SplitFrom(s, p) ==
  LET a == SkipSpaces(s, p)
      b == SkipToken(s, a)
  IN IF a = Len(s) THEN <<>> ELSE <<SubSeq(s, a + 1, b)>> \o SplitFrom(s, b)

StrSplit(s) == SplitFrom(s, 0)

\* ' '.join(parts)
RECURSIVE StrJoin(_)
StrJoin(parts) ==
  IF parts = <<>> THEN <<>>
  ELSE IF Len(parts) = 1 THEN parts[1]
  ELSE parts[1] \o <<" ">> \o StrJoin(Tail(parts))

\* s[p+1 .. p+Len(w)] = w
MatchesAt(s, p, w) == p + Len(w) <= Len(s) /\ \A i \in 1..Len(w) : s[p + i] = w[i]

\* sub in s
Contains(sub, s) == \E p \in 0..(Len(s) - Len(sub)) : MatchesAt(s, p, sub)

\* s.endswith(suf)
EndsWith(s, suf) == Len(suf) <= Len(s) /\ MatchesAt(s, Len(s) - Len(suf), suf)

\* The regular expression anchor \b between positions p and p+1 of s.
WordBoundary(s, p) ==
  (p > 0 /\ IsWord(s[p])) # (p < Len(s) /\ IsWord(s[p+1]))

\* re.sub(r'[^\w\s\.]', ' ', s)
SubNonNameChars(s) ==
  [i \in 1..Len(s) |->
     IF IsWord(s[i]) \/ IsSpace(s[i]) \/ s[i] = "." THEN s[i] ELSE " "]

(***************************************************************************)
(* NameValidator._initialize_ai_patterns: the fixed fallback tables        *)
(***************************************************************************)
ai_name_standardizations ==
  LET pairs == {
    <<<<"b","i","l","l">>, <<"w","i","l","l","i","a","m">>>>,
    <<<<"b","o","b">>, <<"r","o","b","e","r","t">>>>,
    <<<<"d","i","c","k">>, <<"r","i","c","h","a","r","d">>>>,
    <<<<"j","i","m">>, <<"j","a","m","e","s">>>>,
    <<<<"j","o","e">>, <<"j","o","s","e","p","h">>>>,
    <<<<"m","i","k","e">>, <<"m","i","c","h","a","e","l">>>>,
    <<<<"s","t","e","v","e">>, <<"s","t","e","v","e","n">>>>,
    <<<<"d","a","v","e">>, <<"d","a","v","i","d">>>>,
    <<<<"t","o","m">>, <<"t","h","o","m","a","s">>>>,
    <<<<"t","o","n","y">>, <<"a","n","t","h","o","n","y">>>>,
    <<<<"c","h","r","i","s">>, <<"c","h","r","i","s","t","o","p","h","e","r">>>>,
    <<<<"m","a","t","t">>, <<"m","a","t","t","h","e","w">>>>,
    <<<<"d","a","n">>, <<"d","a","n","i","e","l">>>>,
    <<<<"s","a","m">>, <<"s","a","m","u","e","l">>>>,
    <<<<"a","l","e","x">>, <<"a","l","e","x","a","n","d","e","r">>>>,
    <<<<"b","e","n">>, <<"b","e","n","j","a","m","i","n">>>>,
    <<<<"n","i","c","k">>, <<"n","i","c","h","o","l","a","s">>>>,
    <<<<"r","i","c","k">>, <<"r","i","c","h","a","r","d">>>>,
    <<<<"w","i","l","l">>, <<"w","i","l","l","i","a","m">>>>,
    <<<<"t","i","m">>, <<"t","i","m","o","t","h","y">>>>,
    <<<<"p","a","t">>, <<"p","a","t","r","i","c","i","a">>>>,
    <<<<"s","u","e">>, <<"s","u","s","a","n">>>>,
    <<<<"l","i","z">>, <<"e","l","i","z","a","b","e","t","h">>>>,
    <<<<"k","a","t","e">>, <<"k","a","t","h","e","r","i","n","e">>>>,
    <<<<"b","e","t","h">>, <<"e","l","i","z","a","b","e","t","h">>>>,
    <<<<"a","n","n","e">>, <<"a","n","n">>>>,
    <<<<"m","a","g","g","i","e">>, <<"m","a","r","g","a","r","e","t">>>>,
    <<<<"p","e","g">>, <<"m","a","r","g","a","r","e","t">>>>,
    <<<<"j","e","n">>, <<"j","e","n","n","i","f","e","r">>>>,
    <<<<"j","e","n","n">>, <<"j","e","n","n","i","f","e","r">>>>,
    <<<<"a","m","y">>, <<"a","m","e","l","i","a">>>>,
    <<<<"b","e","c","k","y">>, <<"r","e","b","e","c","c","a">>>> }
  IN [k \in {p[1] : p \in pairs} |-> (CHOOSE p \in pairs : p[1] = k)[2]]

ai_prefixes ==
  { <<"m","r">>, <<"m","r","s">>, <<"m","s">>, <<"m","i","s","s">>, <<"d","r">>,
    <<"d","r","s">>, <<"p","r","o","f">>, <<"p","r","o","f","e","s","s","o","r">>,
    <<"r","e","v">>, <<"r","e","v","e","r","e","n","d">>, <<"f","a","t","h","e","r">>,
    <<"m","o","t","h","e","r">>, <<"s","i","s","t","e","r">>, <<"b","r","o","t","h","e","r">>,
    <<"s","i","r">>, <<"l","a","d","y">>, <<"l","o","r","d">>, <<"d","a","m","e">>,
    <<"c","a","p","t">>, <<"c","a","p","t","a","i","n">>, <<"c","o","l">>,
    <<"c","o","l","o","n","e","l">>, <<"m","a","j">>, <<"m","a","j","o","r">>, <<"l","t">>,
    <<"l","i","e","u","t","e","n","a","n","t">>, <<"s","g","t">>,
    <<"s","e","r","g","e","a","n","t">>, <<"g","e","n">>, <<"g","e","n","e","r","a","l">>,
    <<"a","d","m","i","r","a","l">>, <<"j","u","d","g","e">>, <<"j","u","s","t","i","c","e">> }

ai_suffixes ==
  { <<"j","r">>, <<"s","r">>, <<"i","i">>, <<"i","i","i">>, <<"i","v">>, <<"v">>, <<"v","i">>,
    <<"v","i","i">>, <<"v","i","i","i">>, <<"i","x">>, <<"x">>, <<"m","d">>, <<"p","h","d">>,
    <<"e","d","d">>, <<"j","d">>, <<"c","p","a">>, <<"d","d","s">>, <<"d","v","m">>,
    <<"r","n">>, <<"l","p","n">>, <<"p","a">>, <<"e","s","q">>,
    <<"e","s","q","u","i","r","e">>, <<"p","e">>, <<"c","p","e">>, <<"c","f","a">>,
    <<"m","b","a">>, <<"m","s">>, <<"m","a">>, <<"b","s">>, <<"b","a">> }

ai_org_indicators ==
  { <<"l","l","c">>, <<"i","n","c">>, <<"c","o","r","p">>,
    <<"c","o","r","p","o","r","a","t","i","o","n">>, <<"c","o","m","p","a","n","y">>,
    <<"l","t","d">>, <<"l","i","m","i","t","e","d">>, <<"c","o",".">>,
    <<"h","o","s","p","i","t","a","l">>, <<"m","e","d","i","c","a","l">>,
    <<"c","l","i","n","i","c">>, <<"c","e","n","t","e","r">>, <<"c","e","n","t","r","e">>,
    <<"s","e","r","v","i","c","e","s">>, <<"s","o","l","u","t","i","o","n","s">>,
    <<"g","r","o","u","p">>, <<"p","a","r","t","n","e","r","s">>,
    <<"a","s","s","o","c","i","a","t","e","s">>, <<"f","i","r","m">>,
    <<"o","f","f","i","c","e">>, <<"b","a","n","k">>, <<"t","r","u","s","t">>,
    <<"f","o","u","n","d","a","t","i","o","n">>, <<"i","n","s","t","i","t","u","t","e">>,
    <<"u","n","i","v","e","r","s","i","t","y">>, <<"c","o","l","l","e","g","e">>,
    <<"s","c","h","o","o","l">>, <<"a","c","a","d","e","m","y">>, <<"j","t","l","y">>,
    <<"j","o","i","n","t","l","y">> }

common_female ==
  { <<"m","a","r","y">>, <<"j","e","n","n","i","f","e","r">>,
    <<"p","a","t","r","i","c","i","a">>, <<"l","i","n","d","a">>,
    <<"b","a","r","b","a","r","a">>, <<"s","u","s","a","n">>, <<"j","e","s","s","i","c","a">>,
    <<"s","a","r","a","h">>, <<"k","a","r","e","n">>, <<"n","a","n","c","y">>,
    <<"l","i","s","a">>, <<"b","e","t","t","y">>, <<"h","e","l","e","n">>,
    <<"s","a","n","d","r","a">>, <<"d","o","n","n","a">> }

common_male ==
  { <<"j","a","m","e","s">>, <<"j","o","h","n">>, <<"r","o","b","e","r","t">>,
    <<"m","i","c","h","a","e","l">>, <<"w","i","l","l","i","a","m">>, <<"d","a","v","i","d">>,
    <<"r","i","c","h","a","r","d">>, <<"c","h","a","r","l","e","s">>,
    <<"j","o","s","e","p","h">>, <<"t","h","o","m","a","s">>,
    <<"c","h","r","i","s","t","o","p","h","e","r">>, <<"d","a","n","i","e","l">>,
    <<"p","a","u","l">>, <<"m","a","r","k">> }

\* The abbreviations of the regular expression \b(llc|inc|corp|ltd)\b.
org_abbreviations == { <<"l","l","c">>, <<"i","n","c">>, <<"c","o","r","p">>, <<"l","t","d">> }

\* The titles of the first personal-name pattern, (mr|mrs|ms|dr).
personal_titles == { <<"m","r">>, <<"m","r","s">>, <<"m","s">>, <<"d","r">> }

\* The generational suffixes of the second personal-name pattern, (jr|sr|ii|iii).
personal_generations == { <<"j","r">>, <<"s","r">>, <<"i","i">>, <<"i","i","i">> }

female_endings_strong ==
  { <<"a">>, <<"i","a">>, <<"a","n","a">>, <<"e","l","l","a">>, <<"i","n","a">>, <<"l","y","n">>,
    <<"l","y","n","n">>, <<"e","l","l","e">>, <<"e","t","t","e">> }

female_endings_weak == { <<"y">>, <<"i","e">>, <<"e","y">> }

male_endings_strong ==
  { <<"e","r">>, <<"o","n">>, <<"a","n">>, <<"e","n">>, <<"s","o","n">>, <<"t","o","n">>,
    <<"m","a","n">> }

male_endings_weak == { <<"c","k">>, <<"x">>, <<"z">> }

(***************************************************************************)
(* NameValidator.__init__ and _load_dictionaries.  A dictionary directory  *)
(* gives, for each of the seven CSV files, whether it is there and the     *)
(* rows of its first column (its first two columns for the two maps).      *)
(***************************************************************************)
Min(a, b) == IF a <= b THEN a ELSE b

Abs(n) == IF n < 0 THEN 0 - n ELSE n

Range(f) == {f[i] : i \in DOMAIN f}

\* set(df[col].str.lower().dropna()) of a file that is there, else the empty set.
LoadSet(file) == IF file.present THEN {StrLower(r) : r \in file.rows} ELSE {}

\* The dict built row by row, key and value converted by the given case maps.
LoadGenderMap(file) ==
  LET rows == IF file.present THEN file.rows ELSE {}
      keys == {StrLower(r[1]) : r \in rows}
  IN [k \in keys |-> StrUpper((CHOOSE r \in rows : StrLower(r[1]) = k)[2])]

LoadNicknameMap(file) ==
  LET rows == IF file.present THEN file.rows ELSE {}
      keys == {StrLower(r[1]) : r \in rows}
  IN [k \in keys |-> StrTitle((CHOOSE r \in rows : StrLower(r[1]) = k)[2])]

DictionaryFileNames ==
  {"first_names", "surnames", "gender", "nicknames", "business_words",
   "company_suffixes", "name_prefixes"}

\* loaded_count of _load_dictionaries: the files that are there.
loaded_count(dir) ==
  IF ~dir.path_exists THEN 0
  ELSE Cardinality({f \in DictionaryFileNames : dir.files[f].present})

AbsentFile == [present |-> FALSE, rows |-> {}]

FileOf(dir, f) == IF dir.path_exists THEN dir.files[f] ELSE AbsentFile

NameValidatorInit(dir) ==
  [ dictionary_loaded    |-> loaded_count(dir) > 0,
    first_names_set      |-> LoadSet(FileOf(dir, "first_names")),
    surnames_set         |-> LoadSet(FileOf(dir, "surnames")),
    business_words_set   |-> LoadSet(FileOf(dir, "business_words")),
    company_suffixes_set |-> LoadSet(FileOf(dir, "company_suffixes")),
    name_prefixes_set    |-> LoadSet(FileOf(dir, "name_prefixes")),
    name_to_gender       |-> LoadGenderMap(FileOf(dir, "gender")),
    nickname_to_standard |-> LoadNicknameMap(FileOf(dir, "nicknames")) ]

(***************************************************************************)
(* NameValidator: party type                                               *)
(***************************************************************************)
\* re.search(r'\b(llc|inc|corp|ltd)\b', name_lower)
SearchOrgAbbreviation(s) ==
  \E p \in 0..Len(s) : \E w \in org_abbreviations :
     /\ WordBoundary(s, p)
     /\ MatchesAt(s, p, w)
     /\ WordBoundary(s, p + Len(w))

\* re.search(r'\b(mr|mrs|ms|dr)\s+[a-z]+\s+[a-z]+\b', name_lower)
SearchTitledName(s) ==
  \E p \in 0..Len(s) : \E w \in personal_titles :
     /\ WordBoundary(s, p)
     /\ MatchesAt(s, p, w)
     /\ LET a == p + Len(w)
            b == SkipSpaces(s, a)
            c == SkipLowers(s, b)
            d == SkipSpaces(s, c)
            e == SkipLowers(s, d)
        IN /\ b > a
           /\ c > b
           /\ d > c
           /\ e > d
           /\ \E q \in (d + 1)..e : WordBoundary(s, q)

\* re.search(r'\b[a-z]+\s+(jr|sr|ii|iii)\b', name_lower)
SearchGenerationName(s) ==
  \E p \in 0..Len(s) : \E w \in personal_generations :
     /\ WordBoundary(s, p)
     /\ LET a == SkipLowers(s, p)
            b == SkipSpaces(s, a)
        IN /\ a > p
           /\ b > a
           /\ MatchesAt(s, b, w)
           /\ WordBoundary(s, b + Len(w))

org_score(name_lower) ==
    10 * Cardinality({ind \in ai_org_indicators : Contains(ind, name_lower)})
  + (IF SearchOrgAbbreviation(name_lower) THEN 15 ELSE 0)
  + (IF Len(StrSplit(name_lower)) > 3 THEN 5 ELSE 0)
  - (IF SearchTitledName(name_lower) THEN 8 ELSE 0)
  - (IF SearchGenerationName(name_lower) THEN 8 ELSE 0)

\* OrganizationDecision with the threshold off by one (score >= 10).
OrganizationDecisionAtTen(score) ==
  [ is_org     |-> score >= 10,
    confidence |-> Min(80, 50 + Abs(score) * 2),
    method     |-> "ai_pattern_matching" ]

\* is_org and confidence as computed from org_score.
OrganizationDecision(score) ==
  [ is_org     |-> score > 10,
    confidence |-> Min(80, 50 + Abs(score) * 2),
    method     |-> "ai_pattern_matching" ]

_ai_organization_detection(name_lower) == OrganizationDecision(org_score(name_lower))

\* DictionaryRules looking for a business word before a company suffix.
DictionaryRulesWordFirst(v, name_lower, name_parts) ==
  IF /\ v.dictionary_loaded
     /\ Range(name_parts) \cap v.business_words_set # {}
  THEN [is_org |-> TRUE, confidence |-> 92, method |-> "deterministic_business_word"]
  ELSE IF /\ v.dictionary_loaded
          /\ \E suffix \in v.company_suffixes_set : Contains(suffix, name_lower)
  THEN [is_org |-> TRUE, confidence |-> 95, method |-> "deterministic_suffix"]
  ELSE IF /\ v.dictionary_loaded
          /\ Len(name_parts) >= 2
          /\ name_parts[1] \in v.first_names_set
          /\ name_parts[Len(name_parts)] \in v.surnames_set
  THEN [is_org |-> FALSE, confidence |-> 94, method |-> "deterministic_individual"]
  ELSE _ai_organization_detection(name_lower)

\* The rules applied when no party type is given: dictionaries, then the heuristic.
DictionaryRules(v, name_lower, name_parts) ==
  IF /\ v.dictionary_loaded
     /\ \E suffix \in v.company_suffixes_set : Contains(suffix, name_lower)
  THEN [is_org |-> TRUE, confidence |-> 95, method |-> "deterministic_suffix"]
  ELSE IF /\ v.dictionary_loaded
          /\ Range(name_parts) \cap v.business_words_set # {}
  THEN [is_org |-> TRUE, confidence |-> 92, method |-> "deterministic_business_word"]
  ELSE IF /\ v.dictionary_loaded
          /\ Len(name_parts) >= 2
          /\ name_parts[1] \in v.first_names_set
          /\ name_parts[Len(name_parts)] \in v.surnames_set
  THEN [is_org |-> FALSE, confidence |-> 94, method |-> "deterministic_individual"]
  ELSE _ai_organization_detection(name_lower)

\* _determine_organization consulting the dictionaries before the explicit hint.
_determine_organization_hint_last(v, full_name, party_type_hint) ==
  IF full_name = <<>>
  THEN [is_org |-> FALSE, confidence |-> 0, method |-> "empty_name"]
  ELSE IF DictionaryRules(v, StrLower(full_name), StrSplit(StrLower(full_name))).method
            # "ai_pattern_matching"
  THEN DictionaryRules(v, StrLower(full_name), StrSplit(StrLower(full_name)))
  ELSE IF party_type_hint = <<"O">>
  THEN [is_org |-> TRUE, confidence |-> 99, method |-> "explicit_org"]
  ELSE IF party_type_hint = <<"I">>
  THEN [is_org |-> FALSE, confidence |-> 99, method |-> "explicit_individual"]
  ELSE _ai_organization_detection(StrLower(full_name))

_determine_organization(v, full_name, party_type_hint) ==
  IF full_name = <<>>
  THEN [is_org |-> FALSE, confidence |-> 0, method |-> "empty_name"]
  ELSE IF party_type_hint = <<"O">>
  THEN [is_org |-> TRUE, confidence |-> 99, method |-> "explicit_org"]
  ELSE IF party_type_hint = <<"I">>
  THEN [is_org |-> FALSE, confidence |-> 99, method |-> "explicit_individual"]
  ELSE DictionaryRules(v, StrLower(full_name), StrSplit(StrLower(full_name)))

(***************************************************************************)
(* NameValidator: parsing, standardization, gender                         *)
(***************************************************************************)
EmptyParsedName ==
  [prefix |-> <<>>, first_name |-> <<>>, middle_name |-> <<>>,
   last_name |-> <<>>, suffix |-> <<>>]

\* Whether the first part is a prefix: the dictionary when it has one, else ai_prefixes.
HasPrefix(v, parts) ==
  /\ parts # <<>>
  /\ IF v.dictionary_loaded /\ v.name_prefixes_set # {}
     THEN RStripDot(StrLower(parts[1])) \in v.name_prefixes_set
     ELSE RStripDot(StrLower(parts[1])) \in ai_prefixes

\* Whether the last remaining part is a suffix of ai_suffixes.
HasSuffix(name_parts) ==
  /\ name_parts # <<>>
  /\ RStripDot(StrLower(name_parts[Len(name_parts)])) \in ai_suffixes

\* The five components, from the parts left between prefix and suffix.
NameComponents(prefix, name_parts, suffix) ==
  [ prefix      |-> prefix,
    first_name  |-> IF Len(name_parts) >= 1 THEN name_parts[1] ELSE <<>>,
    middle_name |-> IF Len(name_parts) >= 3
                    THEN StrJoin(SubSeq(name_parts, 2, Len(name_parts) - 1)) ELSE <<>>,
    last_name   |-> IF Len(name_parts) >= 2 THEN name_parts[Len(name_parts)] ELSE <<>>,
    suffix      |-> suffix ]

ParseAfterPrefixKeepingSuffix(prefix, name_parts) == NameComponents(prefix, name_parts, <<>>)

\* Suffix extraction and the split of what remains.
ParseAfterPrefix(prefix, name_parts) ==
  IF HasSuffix(name_parts)
  THEN NameComponents(prefix, SubSeq(name_parts, 1, Len(name_parts) - 1),
                      RStripDot(name_parts[Len(name_parts)]))
  ELSE NameComponents(prefix, name_parts, <<>>)

\* Prefix extraction, then the rest.
ParseParts(v, parts) ==
  IF HasPrefix(v, parts)
  THEN ParseAfterPrefix(RStripDot(parts[1]), Tail(parts))
  ELSE ParseAfterPrefix(<<>>, parts)

_enhanced_parse_name(v, full_name) ==
  IF full_name = <<>> \/ StrStrip(full_name) = <<>>
  THEN EmptyParsedName
  ELSE ParseParts(v, StrSplit(SubNonNameChars(full_name)))

\* _standardize_name without the fallback nickname table.
_standardize_name_no_fallback(v, name) ==
  IF name = <<>> THEN <<>>
  ELSE IF v.dictionary_loaded /\ StrLower(name) \in DOMAIN v.nickname_to_standard
  THEN v.nickname_to_standard[StrLower(name)]
  ELSE StrTitle(name)

_standardize_name(v, name) ==
  IF name = <<>> THEN <<>>
  ELSE
    LET name_lower == StrLower(name)
    IN IF /\ v.dictionary_loaded
          /\ name_lower \in DOMAIN v.nickname_to_standard
       THEN v.nickname_to_standard[name_lower]
       ELSE IF name_lower \in DOMAIN ai_name_standardizations
       THEN StrTitle(ai_name_standardizations[name_lower])
       ELSE StrTitle(name)

gender_score(name_lower) ==
    (IF \E e \in female_endings_strong : EndsWith(name_lower, e) THEN 0 - 3 ELSE 0)
  + (IF \E e \in female_endings_weak : EndsWith(name_lower, e) THEN 0 - 1 ELSE 0)
  + (IF \E e \in male_endings_strong : EndsWith(name_lower, e) THEN 2 ELSE 0)
  + (IF \E e \in male_endings_weak : EndsWith(name_lower, e) THEN 1 ELSE 0)

_ai_gender_prediction(name_lower) ==
  IF name_lower \in common_female THEN <<"F">>
  ELSE IF name_lower \in common_male THEN <<"M">>
  ELSE IF gender_score(name_lower) <= 0 - 2 THEN <<"F">>
  ELSE IF gender_score(name_lower) >= 2 THEN <<"M">>
  ELSE <<>>

_predict_gender(v, first_name) ==
  IF first_name = <<>> THEN <<>>
  ELSE
    LET name_lower == StrLower(first_name)
    IN IF v.dictionary_loaded /\ name_lower \in DOMAIN v.name_to_gender
       THEN v.name_to_gender[name_lower]
       ELSE _ai_gender_prediction(name_lower)

(***************************************************************************)
(* NameValidator: confidence and method                                    *)
(***************************************************************************)
\* Whether each sub-decision of _calculate_confidence is backed by a dictionary.
first_name_in_dictionary(v, parsed) ==
  v.dictionary_loaded /\ StrLower(parsed.first_name) \in v.first_names_set

last_name_in_dictionary(v, parsed) ==
  v.dictionary_loaded /\ StrLower(parsed.last_name) \in v.surnames_set

gender_in_dictionary(v, parsed) ==
  /\ v.dictionary_loaded
  /\ parsed.first_name # <<>>
  /\ StrLower(parsed.first_name) \in DOMAIN v.name_to_gender

\* method_scores['deterministic'] and method_scores['ai'] after the three checks.
method_scores(v, parsed, predicted_gender) ==
  LET first  == parsed.first_name # <<>>
      last   == parsed.last_name # <<>>
      gender == predicted_gender # <<>>
      One(b) == IF b THEN 1 ELSE 0
  IN [ deterministic |->
           One(first /\ first_name_in_dictionary(v, parsed))
         + One(last /\ last_name_in_dictionary(v, parsed))
         + One(gender /\ gender_in_dictionary(v, parsed)),
       ai |->
           One(first /\ ~first_name_in_dictionary(v, parsed))
         + One(last /\ ~last_name_in_dictionary(v, parsed))
         + One(gender /\ ~gender_in_dictionary(v, parsed)) ]

\* raw_confidence giving a name found in its dictionary 30 points.
raw_confidence_thirty(v, parsed, predicted_gender) ==
    50
  + (IF parsed.first_name = <<>> THEN 0
     ELSE IF first_name_in_dictionary(v, parsed) THEN 30 ELSE 10)
  + (IF parsed.last_name = <<>> THEN 0
     ELSE IF last_name_in_dictionary(v, parsed) THEN 30 ELSE 10)
  + (IF predicted_gender = <<>> THEN 0
     ELSE IF gender_in_dictionary(v, parsed) THEN 10 ELSE 5)

\* confidence before the cap of the method.
raw_confidence(v, parsed, predicted_gender) ==
    50
  + (IF parsed.first_name = <<>> THEN 0
     ELSE IF first_name_in_dictionary(v, parsed) THEN 20 ELSE 10)
  + (IF parsed.last_name = <<>> THEN 0
     ELSE IF last_name_in_dictionary(v, parsed) THEN 20 ELSE 10)
  + (IF predicted_gender = <<>> THEN 0
     ELSE IF gender_in_dictionary(v, parsed) THEN 10 ELSE 5)

\* OverallMethod without the cap of the deterministic method.
OverallMethodUncapped(scores, confidence) ==
  IF scores.deterministic > scores.ai
  THEN [confidence |-> confidence, method |-> "deterministic"]
  ELSE IF scores.deterministic = scores.ai /\ scores.deterministic > 0
  THEN [confidence |-> Min(confidence, 90), method |-> "hybrid"]
  ELSE [confidence |-> Min(confidence, 80), method |-> "ai_fallback"]

\* OverallMethod calling a tie deterministic (>= for >).
OverallMethodTieDeterministic(scores, confidence) ==
  IF scores.deterministic >= scores.ai /\ scores.deterministic > 0
  THEN [confidence |-> Min(confidence, 99), method |-> "deterministic"]
  ELSE [confidence |-> Min(confidence, 80), method |-> "ai_fallback"]

\* OverallMethod calling deterministic whatever has one dictionary hit.
OverallMethodAnyDictionaryHit(scores, confidence) ==
  IF scores.deterministic > 0
  THEN [confidence |-> Min(confidence, 99), method |-> "deterministic"]
  ELSE [confidence |-> Min(confidence, 80), method |-> "ai_fallback"]

\* The overall method and the cap it puts on the confidence.
OverallMethod(scores, confidence) ==
  IF scores.deterministic > scores.ai
  THEN [confidence |-> Min(confidence, 99), method |-> "deterministic"]
  ELSE IF scores.deterministic = scores.ai /\ scores.deterministic > 0
  THEN [confidence |-> Min(confidence, 90), method |-> "hybrid"]
  ELSE [confidence |-> Min(confidence, 80), method |-> "ai_fallback"]

_calculate_confidence(v, parsed, predicted_gender) ==
  OverallMethod(method_scores(v, parsed, predicted_gender),
                raw_confidence(v, parsed, predicted_gender))

(***************************************************************************)
(* NameValidator.validate_name_record                                      *)
(***************************************************************************)
\* The digits kept by the format specification .4f, as a scale factor.
ConfScale == 10000

\* f"{confidence:.4f}", in ten-thousandths of a point.
FormatScore(confidence) == confidence * ConfScale

\* x.upper() if x else None
UpperOrNone(x) == IF x # <<>> THEN StrUpper(x) ELSE None

\* The text of the AttributeError raised by None.strip().
NoneStripError == "'NoneType' object has no attribute 'strip'"

\* The result dictionary as initialized before the try block.
InitialResult(unique_id, full_name, gender_cd, parse_ind) ==
  [ uniqueID         |-> unique_id,
    partyTypeCd      |-> <<>>,
    prefix           |-> None,
    firstName        |-> None,
    firstNameStd     |-> None,
    middleName       |-> None,
    lastName         |-> None,
    suffix           |-> None,
    fullName         |-> full_name,
    inGenderCd       |-> gender_cd,
    outGenderCd      |-> <<>>,
    prefixLt         |-> None,
    firstNameLt      |-> None,
    middleNameLt     |-> None,
    lastNameLt       |-> None,
    suffixLt         |-> None,
    parseInd         |-> IF parse_ind # <<>> THEN parse_ind ELSE <<"Y">>,
    confidenceScore  |-> 0,
    parseStatus      |-> "Error",
    errorMessage     |-> <<"Processing error">>,
    validationMethod |-> "unknown" ]

\* The branch taken when is_org holds.
OrganizationResult(result, org) ==
  [result EXCEPT !.partyTypeCd = <<"O">>,
                 !.outGenderCd = <<>>,
                 !.parseStatus = "Organization",
                 !.errorMessage = <<"Valid Organization">>,
                 !.confidenceScore = FormatScore(org.confidence),
                 !.validationMethod = org.method]

\* parseStatus and errorMessage of a parsed individual.
StatusLabel(confidence, validation_method) ==
  IF confidence >= 90
  THEN [parseStatus |-> "Parsed",
        errorMessage |-> IF validation_method = "deterministic"
                         THEN <<"Dictionary Validated">> ELSE <<"Probably Valid">>]
  ELSE IF confidence >= 70
  THEN [parseStatus |-> "Parsed", errorMessage |-> <<"Possibly Valid">>]
  ELSE [parseStatus |-> "Warning", errorMessage |-> <<"Low Confidence">>]

\* Steps 2 and 3: the parsed components, their literals, the standard first name.
ParsedFields(v, result, parsed) ==
  [result EXCEPT !.prefix = parsed.prefix,
                 !.firstName = parsed.first_name,
                 !.middleName = parsed.middle_name,
                 !.lastName = parsed.last_name,
                 !.suffix = parsed.suffix,
                 !.prefixLt = UpperOrNone(parsed.prefix),
                 !.firstNameLt = UpperOrNone(parsed.first_name),
                 !.middleNameLt = UpperOrNone(parsed.middle_name),
                 !.lastNameLt = UpperOrNone(parsed.last_name),
                 !.suffixLt = UpperOrNone(parsed.suffix),
                 !.firstNameStd =
                     IF parsed.first_name # <<>>
                     THEN _standardize_name(v, parsed.first_name) ELSE None]

\* Step 4: the gender is predicted only when none was given.
OutGender(v, gender_cd, parsed) ==
  IF gender_cd = <<>> /\ parsed.first_name # <<>>
  THEN _predict_gender(v, parsed.first_name)
  ELSE gender_cd

\* Step 5: score, method and status.
ScoredFields(result, out_gender, conf) ==
  [result EXCEPT !.outGenderCd = out_gender,
                 !.confidenceScore = FormatScore(conf.confidence),
                 !.validationMethod = conf.method,
                 !.parseStatus = StatusLabel(conf.confidence, conf.method).parseStatus,
                 !.errorMessage = StatusLabel(conf.confidence, conf.method).errorMessage]

ParsedWithGender(v, result, parsed, out_gender) ==
  ScoredFields(ParsedFields(v, result, parsed), out_gender,
               _calculate_confidence(v, parsed, out_gender))

ParsedFrom(v, result, gender_cd, parsed) ==
  ParsedWithGender(v, result, parsed, OutGender(v, gender_cd, parsed))

\* The branch taken for an individual when parseInd is 'Y'.
ParsedResult(v, result, full_name, gender_cd) ==
  ParsedFrom(v, result, gender_cd, _enhanced_parse_name(v, full_name))

\* NotParsedResult leaving validationMethod as initialized.
NotParsedResultNoMethod(result, gender_cd) ==
  [result EXCEPT !.parseStatus = "Not Parsed",
                 !.errorMessage = <<"Parsing not requested">>,
                 !.confidenceScore = FormatScore(80),
                 !.outGenderCd = gender_cd]

\* The branch taken for an individual when parseInd is not 'Y'.
NotParsedResult(result, gender_cd) ==
  [result EXCEPT !.parseStatus = "Not Parsed",
                 !.errorMessage = <<"Parsing not requested">>,
                 !.confidenceScore = FormatScore(80),
                 !.outGenderCd = gender_cd,
                 !.validationMethod = "no_parse"]

\* What a call yields: a returned result, or the exception that leaves it.
Returned(result) == [raised |-> FALSE, error |-> "", result |-> result]

Raised(error) == [raised |-> TRUE, error |-> error, result |-> <<>>]

\* ResultFor parsing an individual whatever parseInd says.
ResultForAlwaysParsed(v, result, full_name, gender_cd, org) ==
  IF org.is_org
  THEN OrganizationResult(result, org)
  ELSE ParsedResult(v, [result EXCEPT !.partyTypeCd = <<"I">>], full_name, gender_cd)

\* The try block, once the party type is decided.
ResultFor(v, result, full_name, gender_cd, org) ==
  IF org.is_org
  THEN OrganizationResult(result, org)
  ELSE IF result.parseInd = <<"Y">>
  THEN ParsedResult(v, [result EXCEPT !.partyTypeCd = <<"I">>], full_name, gender_cd)
  ELSE NotParsedResult([result EXCEPT !.partyTypeCd = <<"I">>], gender_cd)

\* The call once its four fields are read, stripped and upper-cased.
ValidateFields(v, unique_id, full_name, gender_cd, party_type_cd, parse_ind) ==
  Returned(ResultFor(v, InitialResult(unique_id, full_name, gender_cd, parse_ind),
                     full_name, gender_cd,
                     _determine_organization(v, full_name, party_type_cd)))

validate_name_record(v, record) ==
  IF \/ record.fullName = None
     \/ record.genderCd = None
     \/ record.partyTypeCd = None
     \/ record.parseInd = None
  THEN Raised(NoneStripError)
  ELSE ValidateFields(v, record.uniqueID,
                      StrStrip(record.fullName),
                      StrUpper(StrStrip(record.genderCd)),
                      StrUpper(StrStrip(record.partyTypeCd)),
                      StrUpper(StrStrip(record.parseInd)))

(***************************************************************************)
(* ValidationService.validate_names                                        *)
(***************************************************************************)
TrackedMethods == {"deterministic", "hybrid", "ai_fallback", "error"}

InitialMethodStats == [m \in TrackedMethods |-> 0]

\* The dictionary appended when validate_name_record raises.
ErrorResult(name_record, error) ==
  [ uniqueID         |-> name_record.uniqueID,
    partyTypeCd      |-> <<>>,
    prefix           |-> None,
    firstName        |-> None,
    firstNameStd     |-> None,
    middleName       |-> None,
    lastName         |-> None,
    suffix           |-> None,
    fullName         |-> name_record.fullName,
    inGenderCd       |-> name_record.genderCd,
    outGenderCd      |-> <<>>,
    prefixLt         |-> None,
    firstNameLt      |-> None,
    middleNameLt     |-> None,
    lastNameLt       |-> None,
    suffixLt         |-> None,
    parseInd         |-> name_record.parseInd,
    confidenceScore  |-> 0,
    parseStatus      |-> "Error",
    errorMessage     |-> <<"Processing error: ", error>>,
    validationMethod |-> "error" ]

\* CountMethod leaving a method outside method_stats uncounted.
CountMethodTrackedOnly(stats, validation_method) ==
  IF validation_method \in TrackedMethods
  THEN [stats EXCEPT ![validation_method] = @ + 1]
  ELSE stats

\* method_stats after one more result with the given validationMethod.
CountMethod(stats, validation_method) ==
  IF validation_method \in TrackedMethods
  THEN [stats EXCEPT ![validation_method] = @ + 1]
  ELSE [stats EXCEPT !["error"] = @ + 1]

\* AppendOutcome losing the results gathered so far when a record raises.
AppendOutcomeAborting(acc, name_record, out) ==
  IF ~out.raised
  THEN [ results      |-> Append(acc.results, out.result),
         method_stats |-> CountMethod(acc.method_stats, out.result.validationMethod) ]
  ELSE [ results      |-> <<ErrorResult(name_record, out.error)>>,
         method_stats |-> CountMethod(InitialMethodStats, "error") ]

\* The result appended for a record, and the method counted for it.
AppendOutcome(acc, name_record, out) ==
  IF ~out.raised
  THEN [ results      |-> Append(acc.results, out.result),
         method_stats |-> CountMethod(acc.method_stats, out.result.validationMethod) ]
  ELSE [ results      |-> Append(acc.results, ErrorResult(name_record, out.error)),
         method_stats |-> CountMethod(acc.method_stats, "error") ]

\* validate_names_step answering from the results so far, keyed by uniqueID.
validate_names_step_cached(v, acc, name_record) ==
  IF \E i \in DOMAIN acc.results : acc.results[i].uniqueID = name_record.uniqueID
  THEN LET i == CHOOSE j \in DOMAIN acc.results :
                  acc.results[j].uniqueID = name_record.uniqueID
       IN [ results      |-> Append(acc.results, acc.results[i]),
            method_stats |-> CountMethod(acc.method_stats,
                                         acc.results[i].validationMethod) ]
  ELSE AppendOutcome(acc, name_record, validate_name_record(v, name_record))

\* One iteration of the loop over names: results and method_stats afterwards.
validate_names_step(v, acc, name_record) ==
  AppendOutcome(acc, name_record, validate_name_record(v, name_record))

\* The response dictionary built after the loop.
NamesResponse(acc, dictionary_status) ==
  [ names |-> acc.results,
    processing_stats |->
      [ total_processed      |-> Len(acc.results),
        validation_methods   |-> acc.method_stats,
        dictionary_available |-> dictionary_status ] ]

\* str(n) of a natural number.
RECURSIVE IntToStr(_)
IntToStr(n) ==
  LET digit == <<"0", "1", "2", "3", "4", "5", "6", "7", "8", "9">>[(n % 10) + 1]
  IN IF n < 10 THEN <<digit>> ELSE Append(IntToStr(n \div 10), digit)

\* The loop of validate_names over all of names.
RECURSIVE validate_names_loop(_, _, _)
validate_names_loop(v, acc, names_data) ==
  IF names_data = <<>> THEN acc
  ELSE validate_names_loop(v, validate_names_step(v, acc, Head(names_data)),
                           Tail(names_data))

\* The name records process_csv_names makes of the name column, one cell per
\* row as str() shows it.
RECURSIVE CsvNameRecords(_, _)
CsvNameRecords(cells, idx) ==
  IF cells = <<>> THEN <<>>
  ELSE (IF StrStrip(Head(cells)) \notin {<<>>, <<"n", "a", "n">>}
        THEN << [uniqueID |-> IntToStr(idx + 1), fullName |-> StrStrip(Head(cells)),
                 genderCd |-> <<>>, partyTypeCd |-> <<>>, parseInd |-> <<"Y">>] >>
        ELSE <<>>)
       \o CsvNameRecords(Tail(cells), idx + 1)

\* ValidationService.process_csv_names on a table with a name column.
process_csv_names(v, cells) ==
  IF CsvNameRecords(cells, 0) = <<>>
  THEN [success |-> FALSE, error |-> "No valid names found in CSV"]
  ELSE LET results ==
             validate_names_loop(v, [results |-> <<>>, method_stats |-> InitialMethodStats],
                                 CsvNameRecords(cells, 0)).results
       IN [success           |-> TRUE,
           total_records     |-> Len(cells),
           processed_records |-> Len(results),
           results           |->
             [i \in DOMAIN results |->
                [row_number        |-> results[i].uniqueID,
                 original_name     |-> results[i].fullName,
                 parse_status      |-> results[i].parseStatus,
                 validation_method |-> results[i].validationMethod]]]

(***************************************************************************)
(* Inputs: dictionary directories and name records                         *)
(***************************************************************************)
\* Longest name, in tokens, built from NameTokens.
MaxTokens == 2

\* Longest batch handed to validate_names.
MaxBatch == 2

Bill   == <<"B","i","l","l">>
Smith  == <<"S","m","i","t","h">>
Mary   == <<"M","a","r","y">>
DrDot  == <<"D","r",".">>
Jr     == <<"J","r">>
Clinic == <<"C","l","i","n","i","c">>

NameTokens == {Bill, Smith, Mary, DrDot}

RECURSIVE TokenSeqs(_)
TokenSeqs(n) ==
  IF n = 0 THEN {<<>>}
  ELSE LET shorter == TokenSeqs(n - 1)
       IN shorter \cup {Append(ts, t) : ts \in {x \in shorter : Len(x) = n - 1}, t \in NameTokens}

TokenNames == {StrJoin(ts) : ts \in TokenSeqs(MaxTokens)}

\* The names of test_validation_service and of the documentation, and edge cases.
ExampleNames ==
  { <<" "," ">>,
    <<" ","B","i","l","l"," "," ","S","m","i","t","h"," ">>,
    <<"D","r","."," ","S","a","r","a","h"," ","J","o","h","n","s","o","n","-",
      "W","i","l","l","i","a","m","s">>,
    <<"T","e","c","h","C","o","r","p"," ","S","o","l","u","t","i","o","n","s"," ","L","L","C">>,
    <<"M","r","."," ","M","i","c","h","a","e","l"," ","T","h","o","m","p","s","o","n"," ",
      "J","r",".">>,
    <<"J","e","n","n","i","f","e","r">>,
    <<"D","r"," ","M","e","d","i","c","a","l"," ","C","l","i","n","i","c">>,
    <<"S","m","i","t","h"," ","L","L","C">>,
    <<"M","a","r","y"," ","C","l","i","n","i","c">>,
    <<"B","i","l","l"," ","C","l","i","n","i","c">>,
    <<"A","n","n","a"," ","M","a","r","y"," ","B","i","l","l"," ","S","m","i","t","h">>,
    <<"M","a","r","y"," ","L","L","C"," ","C","l","i","n","i","c"," ","S","m","i","t","h">>,
    <<"M","a","r","y"," ","C","l","i","n","i","c"," ","S","m","i","t","h">>,
    StrJoin(<<Bill, Smith, Jr>>),
    StrJoin(<<Mary, Jr>>),
    Jr,
    <<"-","-">> }

FullNames == TokenNames \cup ExampleNames \cup {None}

GenderCds == {<<>>, <<"m">>, None}

PartyTypeCds == {<<>>, <<"O">>, <<" ","i">>, None}

ParseInds == {<<>>, <<"n">>, None}

NameFields == {"fullName", "genderCd", "partyTypeCd", "parseInd"}

\* Every combination of string values, and every record with one null field
\* beside empty hints.
NameRecords ==
  { r \in [ uniqueID : {"1"}, fullName : FullNames, genderCd : GenderCds,
            partyTypeCd : PartyTypeCds, parseInd : ParseInds ] :
      \/ \A f \in NameFields : r[f] # None
      \/ /\ Cardinality({f \in NameFields : r[f] = None}) = 1
         /\ \A f \in NameFields \ {"fullName"} : r[f] \in {None, <<>>} }

Rec(id, full_name, gender_cd, party_type_cd, parse_ind) ==
  [ uniqueID |-> id, fullName |-> full_name, genderCd |-> gender_cd,
    partyTypeCd |-> party_type_cd, parseInd |-> parse_ind ]

\* The records batches are made of: two share a uniqueID, one holds a null.
BatchRecords ==
  { Rec("1", StrJoin(<<Bill, Smith>>), <<>>, <<>>, <<"Y">>),
    Rec("1", StrJoin(<<Mary, Clinic>>), <<"F">>, <<>>, <<"N">>),
    Rec("2", StrJoin(<<Mary, Smith>>), None, <<>>, <<"Y">>),
    Rec("3", StrJoin(<<DrDot, Smith>>), <<"m">>, <<"O">>, <<"Y">>) }

\* The prefix set the parser consults: the dictionary's when one is loaded,
\* else the fallback table.
ActivePrefixes(v) ==
  IF v.dictionary_loaded /\ v.name_prefixes_set # {} THEN v.name_prefixes_set ELSE ai_prefixes

\* Names in canonical form: a prefix of the active set, three name tokens, one
\* of them with a period and one with an apostrophe, and a suffix of the
\* fixed set.
CanonicalNames(v) ==
  [prefix : ActivePrefixes(v) \cap {<<"d","r">>, <<"m","r">>, <<"d","r",".">>},
   first_name  : {Bill, <<"J",".">>, <<"O","'","N","e","i","l">>},
   middle_name : {Bill, <<"J",".">>, <<"O","'","N","e","i","l">>},
   last_name   : {Smith, <<"O","'","N","e","i","l">>},
   suffix : ai_suffixes \cap {<<"j","r">>, <<"m","d">>, <<"i","i","i">>}]

\* The name columns of at most MaxBatch rows: names, blank cells and the
\* 'nan' of a missing value.
NameColumns ==
  UNION {[1..n -> {StrJoin(<<Bill, Smith>>), StrJoin(<<Mary, Clinic>>), <<>>, <<" ">>,
                   <<"n", "a", "n">>}] : n \in 1..MaxBatch}

RECURSIVE Batches(_)
Batches(n) ==
  IF n = 0 THEN {<<>>}
  ELSE LET shorter == Batches(n - 1)
       IN shorter \cup {Append(b, r) : b \in {x \in shorter : Len(x) = n - 1}, r \in BatchRecords}

File(rows) == [present |-> TRUE, rows |-> rows]

FirstNameFiles == {AbsentFile, File({Mary})}

SurnameFiles == {AbsentFile, File({Smith})}

GenderFiles == {AbsentFile, File({<<Bill, <<"m">> >>, <<Mary, <<"F">> >>})}

\* The nicknames file and the prefixes file, there together or not at all.
AuxiliaryFiles ==
  { [nicknames |-> AbsentFile, name_prefixes |-> AbsentFile],
    [nicknames |-> File({<<Bill, <<"b","i","l","l","y">> >>}),
     name_prefixes |-> File({<<"D","r">>, <<"D","r",".">>})] }

OrganizationFiles ==
  { [business_words |-> AbsentFile, company_suffixes |-> AbsentFile],
    [business_words |-> File({Clinic}), company_suffixes |-> AbsentFile],
    [business_words |-> File({Clinic}), company_suffixes |-> File({<<"L","L","C">>})] }

DictionaryDirs ==
  { [path_exists |-> FALSE, files |-> [f \in DictionaryFileNames |-> AbsentFile]] }
  \cup
  { [ path_exists |-> TRUE,
      files |-> [ first_names      |-> fn,
                  surnames         |-> sn,
                  gender           |-> g,
                  nicknames        |-> ax.nicknames,
                  business_words   |-> o.business_words,
                  company_suffixes |-> o.company_suffixes,
                  name_prefixes    |-> ax.name_prefixes ] ] :
      fn \in FirstNameFiles, sn \in SurnameFiles, g \in GenderFiles,
      o \in OrganizationFiles, ax \in AuxiliaryFiles }

(***************************************************************************)
(* api/main.py: StateNormalizer and AddressCategorizer                     *)
(***************************************************************************)
state_name_to_code ==
  LET pairs == {
    <<<<"a","l","a","b","a","m","a">>, <<"A","L">>>>,
    <<<<"a","l","a","s","k","a">>, <<"A","K">>>>,
    <<<<"a","r","i","z","o","n","a">>, <<"A","Z">>>>,
    <<<<"a","r","k","a","n","s","a","s">>, <<"A","R">>>>,
    <<<<"c","a","l","i","f","o","r","n","i","a">>, <<"C","A">>>>,
    <<<<"c","o","l","o","r","a","d","o">>, <<"C","O">>>>,
    <<<<"c","o","n","n","e","c","t","i","c","u","t">>, <<"C","T">>>>,
    <<<<"d","e","l","a","w","a","r","e">>, <<"D","E">>>>,
    <<<<"f","l","o","r","i","d","a">>, <<"F","L">>>>,
    <<<<"g","e","o","r","g","i","a">>, <<"G","A">>>>,
    <<<<"h","a","w","a","i","i">>, <<"H","I">>>>,
    <<<<"i","d","a","h","o">>, <<"I","D">>>>,
    <<<<"i","l","l","i","n","o","i","s">>, <<"I","L">>>>,
    <<<<"i","n","d","i","a","n","a">>, <<"I","N">>>>,
    <<<<"i","o","w","a">>, <<"I","A">>>>,
    <<<<"k","a","n","s","a","s">>, <<"K","S">>>>,
    <<<<"k","e","n","t","u","c","k","y">>, <<"K","Y">>>>,
    <<<<"l","o","u","i","s","i","a","n","a">>, <<"L","A">>>>,
    <<<<"m","a","i","n","e">>, <<"M","E">>>>,
    <<<<"m","a","r","y","l","a","n","d">>, <<"M","D">>>>,
    <<<<"m","a","s","s","a","c","h","u","s","e","t","t","s">>, <<"M","A">>>>,
    <<<<"m","i","c","h","i","g","a","n">>, <<"M","I">>>>,
    <<<<"m","i","n","n","e","s","o","t","a">>, <<"M","N">>>>,
    <<<<"m","i","s","s","i","s","s","i","p","p","i">>, <<"M","S">>>>,
    <<<<"m","i","s","s","o","u","r","i">>, <<"M","O">>>>,
    <<<<"m","o","n","t","a","n","a">>, <<"M","T">>>>,
    <<<<"n","e","b","r","a","s","k","a">>, <<"N","E">>>>,
    <<<<"n","e","v","a","d","a">>, <<"N","V">>>>,
    <<<<"n","e","w"," ","h","a","m","p","s","h","i","r","e">>, <<"N","H">>>>,
    <<<<"n","e","w"," ","j","e","r","s","e","y">>, <<"N","J">>>>,
    <<<<"n","e","w"," ","m","e","x","i","c","o">>, <<"N","M">>>>,
    <<<<"n","e","w"," ","y","o","r","k">>, <<"N","Y">>>>,
    <<<<"n","o","r","t","h"," ","c","a","r","o","l","i","n","a">>, <<"N","C">>>>,
    <<<<"n","o","r","t","h"," ","d","a","k","o","t","a">>, <<"N","D">>>>,
    <<<<"o","h","i","o">>, <<"O","H">>>>,
    <<<<"o","k","l","a","h","o","m","a">>, <<"O","K">>>>,
    <<<<"o","r","e","g","o","n">>, <<"O","R">>>>,
    <<<<"p","e","n","n","s","y","l","v","a","n","i","a">>, <<"P","A">>>>,
    <<<<"r","h","o","d","e"," ","i","s","l","a","n","d">>, <<"R","I">>>>,
    <<<<"s","o","u","t","h"," ","c","a","r","o","l","i","n","a">>, <<"S","C">>>>,
    <<<<"s","o","u","t","h"," ","d","a","k","o","t","a">>, <<"S","D">>>>,
    <<<<"t","e","n","n","e","s","s","e","e">>, <<"T","N">>>>,
    <<<<"t","e","x","a","s">>, <<"T","X">>>>,
    <<<<"u","t","a","h">>, <<"U","T">>>>,
    <<<<"v","e","r","m","o","n","t">>, <<"V","T">>>>,
    <<<<"v","i","r","g","i","n","i","a">>, <<"V","A">>>>,
    <<<<"w","a","s","h","i","n","g","t","o","n">>, <<"W","A">>>>,
    <<<<"w","e","s","t"," ","v","i","r","g","i","n","i","a">>, <<"W","V">>>>,
    <<<<"w","i","s","c","o","n","s","i","n">>, <<"W","I">>>>,
    <<<<"w","y","o","m","i","n","g">>, <<"W","Y">>>>,
    <<<<"d","i","s","t","r","i","c","t"," ","o","f"," ","c","o","l","u","m","b","i","a">>, <<"D","C">>>>,
    <<<<"c","a","l","i","f">>, <<"C","A">>>>,
    <<<<"c","a","l","i">>, <<"C","A">>>>,
    <<<<"c","a","l">>, <<"C","A">>>>,
    <<<<"f","l","a">>, <<"F","L">>>>,
    <<<<"t","e","x">>, <<"T","X">>>>,
    <<<<"p","e","n","n">>, <<"P","A">>>>,
    <<<<"p","e","n","n","a">>, <<"P","A">>>>,
    <<<<"m","a","s","s">>, <<"M","A">>>>,
    <<<<"c","o","n","n">>, <<"C","T">>>>,
    <<<<"w","a","s","h">>, <<"W","A">>>>,
    <<<<"o","r","e">>, <<"O","R">>>>,
    <<<<"o","r","e","g">>, <<"O","R">>>>,
    <<<<"m","i","c","h">>, <<"M","I">>>>,
    <<<<"i","l","l">>, <<"I","L">>>>,
    <<<<"i","n","d">>, <<"I","N">>>>,
    <<<<"t","e","n","n">>, <<"T","N">>>>,
    <<<<"k","y">>, <<"K","Y">>>>,
    <<<<"l","a">>, <<"L","A">>>>,
    <<<<"m","i","s","s">>, <<"M","S">>>>,
    <<<<"a","l","a">>, <<"A","L">>>>,
    <<<<"g","a">>, <<"G","A">>>>,
    <<<<"n","c">>, <<"N","C">>>>,
    <<<<"n"," ","c","a","r","o","l","i","n","a">>, <<"N","C">>>>,
    <<<<"n","."," ","c","a","r","o","l","i","n","a">>, <<"N","C">>>>,
    <<<<"s","c">>, <<"S","C">>>>,
    <<<<"s"," ","c","a","r","o","l","i","n","a">>, <<"S","C">>>>,
    <<<<"s","."," ","c","a","r","o","l","i","n","a">>, <<"S","C">>>>,
    <<<<"n","d">>, <<"N","D">>>>,
    <<<<"n"," ","d","a","k","o","t","a">>, <<"N","D">>>>,
    <<<<"n","."," ","d","a","k","o","t","a">>, <<"N","D">>>>,
    <<<<"s","d">>, <<"S","D">>>>,
    <<<<"s"," ","d","a","k","o","t","a">>, <<"S","D">>>>,
    <<<<"s","."," ","d","a","k","o","t","a">>, <<"S","D">>>>,
    <<<<"w","v">>, <<"W","V">>>>,
    <<<<"w"," ","v","i","r","g","i","n","i","a">>, <<"W","V">>>>,
    <<<<"w","."," ","v","i","r","g","i","n","i","a">>, <<"W","V">>>>,
    <<<<"d","c">>, <<"D","C">>>>,
    <<<<"d",".","c",".">>, <<"D","C">>>>,
    <<<<"w","a","s","h","i","n","g","t","o","n"," ","d","c">>, <<"D","C">>>>,
    <<<<"w","a","s","h","i","n","g","t","o","n"," ","d",".","c",".">>, <<"D","C">>>> }
  IN [k \in {p[1] : p \in pairs} |-> (CHOOSE p \in pairs : p[1] = k)[2]]

valid_state_codes ==
  {<<"A","L">>, <<"A","K">>, <<"A","Z">>, <<"A","R">>, <<"C","A">>, <<"C","O">>, <<"C","T">>,
    <<"D","E">>, <<"F","L">>, <<"G","A">>, <<"H","I">>, <<"I","D">>, <<"I","L">>, <<"I","N">>,
    <<"I","A">>, <<"K","S">>, <<"K","Y">>, <<"L","A">>, <<"M","E">>, <<"M","D">>, <<"M","A">>,
    <<"M","I">>, <<"M","N">>, <<"M","S">>, <<"M","O">>, <<"M","T">>, <<"N","E">>, <<"N","V">>,
    <<"N","H">>, <<"N","J">>, <<"N","M">>, <<"N","Y">>, <<"N","C">>, <<"N","D">>, <<"O","H">>,
    <<"O","K">>, <<"O","R">>, <<"P","A">>, <<"R","I">>, <<"S","C">>, <<"S","D">>, <<"T","N">>,
    <<"T","X">>, <<"U","T">>, <<"V","T">>, <<"V","A">>, <<"W","A">>, <<"W","V">>, <<"W","I">>,
    <<"W","Y">>, <<"D","C">> }

\* s.replace(c, '')
StrRemove(s, c) == SelectSeq(s, LAMBDA x : x # c)

\* sep.join(parts)
RECURSIVE JoinWith(_, _)
JoinWith(sep, parts) ==
  IF parts = <<>> THEN <<>>
  ELSE IF Len(parts) = 1 THEN parts[1]
  ELSE parts[1] \o sep \o JoinWith(sep, Tail(parts))

IsBlankNoStrip(s) == s = None \/ s = <<>>

\* not s or not s.strip()
IsBlank(s) == s = None \/ s = <<>> \/ StrStrip(s) = <<>>

\* normalize_state knowing the 2-letter codes only.
normalize_state_codes_only(state_input) ==
  IF IsBlank(state_input)
  THEN [normalized |-> <<>>, is_valid |-> FALSE, original |-> state_input]
  ELSE IF Len(StrStrip(state_input)) = 2 /\ StrUpper(StrStrip(state_input)) \in valid_state_codes
  THEN [normalized |-> StrUpper(StrStrip(state_input)), is_valid |-> TRUE,
        original |-> StrStrip(state_input)]
  ELSE [normalized |-> StrUpper(StrStrip(state_input)), is_valid |-> FALSE,
        original |-> StrStrip(state_input)]

\* StateNormalizer.normalize_state: (normalized, is_valid, original).
normalize_state(state_input) ==
  IF IsBlank(state_input)
  THEN [normalized |-> <<>>, is_valid |-> FALSE, original |-> state_input]
  ELSE LET cleaned_input    == StrLower(StrStrip(state_input))
           original_input   == StrStrip(state_input)
           cleaned_no_punct == StrRemove(StrRemove(cleaned_input, "."), ",")
       IN IF Len(cleaned_input) = 2 /\ StrUpper(cleaned_input) \in valid_state_codes
          THEN [normalized |-> StrUpper(cleaned_input), is_valid |-> TRUE,
                original |-> original_input]
          ELSE IF cleaned_input \in DOMAIN state_name_to_code
          THEN [normalized |-> state_name_to_code[cleaned_input], is_valid |-> TRUE,
                original |-> original_input]
          ELSE IF cleaned_no_punct \in DOMAIN state_name_to_code
          THEN [normalized |-> state_name_to_code[cleaned_no_punct], is_valid |-> TRUE,
                original |-> original_input]
          ELSE [normalized |-> StrUpper(original_input), is_valid |-> FALSE,
                original |-> original_input]

\* One item of a pattern: between lo and hi characters of a class.
Item(class, lo, hi) == [class |-> class, lo |-> lo, hi |-> hi]

\* re.match('^' + pat + '$', s), from position i of s and item j of pat.
RECURSIVE MatchFrom(_, _, _, _)
MatchFrom(s, i, pat, j) ==
  IF j > Len(pat) THEN i = Len(s) + 1
  ELSE \E n \in pat[j].lo..pat[j].hi :
         /\ i + n - 1 <= Len(s)
         /\ \A k \in 0..(n - 1) : s[i + k] \in pat[j].class
         /\ MatchFrom(s, i + n, pat, j + 1)

FullMatch(pat, s) == MatchFrom(s, 1, pat, 1)

\* us_patterns of analyze_zip_code.
us_patterns ==
  << <<Item(Digits, 5, 5)>>,
     <<Item(Digits, 9, 9)>>,
     <<Item(Digits, 5, 5), Item({"-"}, 0, 1), Item(Digits, 4, 4)>> >>

\* international_patterns of analyze_zip_code, in the order of the dict.
international_patterns ==
  << [pattern |-> <<Item(UpperLetters, 1, 1), Item(Digits, 1, 1), Item(UpperLetters, 1, 1),
                    Item(Whitespace, 0, 1), Item(Digits, 1, 1), Item(UpperLetters, 1, 1),
                    Item(Digits, 1, 1)>>,
      description |-> "Canadian postal code"],
     [pattern |-> <<Item(UpperLetters, 1, 2), Item(Digits, 1, 1), Item(UpperLetters \cup Digits, 0, 1),
                    Item(Whitespace, 0, 1), Item(Digits, 1, 1), Item(UpperLetters, 2, 2)>>,
      description |-> "UK postal code"],
     [pattern |-> <<Item(Digits, 5, 5)>>,
      description |-> "German postal code (5 digits)"],
     [pattern |-> <<Item(Digits, 4, 4)>>,
      description |-> "Australian postal code"],
     [pattern |-> <<Item(Digits, 4, 4), Item(Whitespace, 0, 1), Item(UpperLetters, 2, 2)>>,
      description |-> "Dutch postal code"],
     [pattern |-> <<Item(Digits, 3, 3), Item(Whitespace, 0, 1), Item(Digits, 2, 2)>>,
      description |-> "Nordic postal code"],
     [pattern |-> <<Item(Digits, 3, 3), Item({"-"}, 0, 1), Item(Digits, 4, 4)>>,
      description |-> "Japanese postal code"],
     [pattern |-> <<Item(Digits, 5, 5), Item({"-"}, 0, 1), Item(Digits, 3, 3)>>,
      description |-> "Brazilian postal code"],
     [pattern |-> <<Item(Digits, 6, 6)>>,
      description |-> "Indian/Chinese postal code"],
     [pattern |-> <<Item(UpperLetters, 2, 4), Item(Whitespace, 0, 1), Item(Digits, 3, 5)>>,
      description |-> "International postal code (letters + numbers)"],
     [pattern |-> <<Item(Digits, 6, 8)>>,
      description |-> "International postal code (6-8 digits)"],
     [pattern |-> <<Item(UpperLetters \cup Digits, 5, 10)>>,
      description |-> "International postal code (alphanumeric)"] >>

\* analyze_zip_code knowing the US patterns only.
analyze_zip_code_us_only(zip_code) ==
  IF zip_code = <<>>
  THEN [type |-> "invalid", reason |-> "Empty ZIP code"]
  ELSE IF \E i \in DOMAIN us_patterns : FullMatch(us_patterns[i], StrStrip(zip_code))
  THEN [type |-> "us", reason |-> "US ZIP code format"]
  ELSE [type |-> "invalid", reason |-> "Unrecognized postal code format"]

\* AddressCategorizer.analyze_zip_code
analyze_zip_code(zip_code) ==
  IF zip_code = <<>>
  THEN [type |-> "invalid", reason |-> "Empty ZIP code"]
  ELSE IF \E i \in DOMAIN us_patterns : FullMatch(us_patterns[i], StrStrip(zip_code))
  THEN [type |-> "us", reason |-> "US ZIP code format"]
  ELSE LET zip_upper == StrUpper(StrStrip(zip_code))
           hits == {i \in DOMAIN international_patterns :
                      FullMatch(international_patterns[i].pattern, zip_upper)}
       IN IF hits # {}
          THEN [type |-> "international",
                reason |-> international_patterns[CHOOSE i \in hits : \A h \in hits : i <= h].description]
          ELSE [type |-> "invalid", reason |-> "Unrecognized postal code format"]

\* validate_us_format taking the hyphen of ZIP+4 as optional.
validate_us_format_optional_hyphen(address_data, normalized_state, is_valid_state) ==
  LET issues ==
           (IF ~is_valid_state
            THEN << <<"Invalid US state: '">> \o address_data.state
                      \o <<"' (not recognized as state name or code)">> >>
            ELSE <<>>)
        \o (IF    FullMatch(<<Item(Digits, 5, 5)>>, StrStrip(address_data.zip))
               \/ FullMatch(<<Item(Digits, 5, 5), Item({"-"}, 0, 1), Item(Digits, 4, 4)>>,
                            StrStrip(address_data.zip))
            THEN <<>>
            ELSE << <<"ZIP code must be 5 digits or ZIP+4 format">> >>)
        \o (IF Len(StrStrip(address_data.line1)) < 3
            THEN << <<"Street address too short">> >>
            ELSE <<>>)
        \o (IF Len(StrStrip(address_data.city)) < 2
            THEN << <<"City name too short">> >>
            ELSE IF ~FullMatch(<<Item(LowerLetters \cup UpperLetters \cup Whitespace
                                        \cup {".", "-", "'"},
                                      1, Len(address_data.city))>>,
                               StrStrip(address_data.city))
            THEN << <<"City contains invalid characters">> >>
            ELSE <<>>)
  IN [valid |-> issues = <<>>, issues |-> issues]

\* AddressCategorizer.validate_us_format; a city name is made of the
\* characters [A-Za-z\s\.\-\'].
validate_us_format(address_data, normalized_state, is_valid_state) ==
  LET issues ==
           (IF ~is_valid_state
            THEN << <<"Invalid US state: '">> \o address_data.state
                      \o <<"' (not recognized as state name or code)">> >>
            ELSE <<>>)
        \o (IF    FullMatch(<<Item(Digits, 5, 5)>>, StrStrip(address_data.zip))
               \/ FullMatch(<<Item(Digits, 5, 5), Item({"-"}, 1, 1), Item(Digits, 4, 4)>>,
                            StrStrip(address_data.zip))
            THEN <<>>
            ELSE << <<"ZIP code must be 5 digits or ZIP+4 format">> >>)
        \o (IF Len(StrStrip(address_data.line1)) < 3
            THEN << <<"Street address too short">> >>
            ELSE <<>>)
        \o (IF Len(StrStrip(address_data.city)) < 2
            THEN << <<"City name too short">> >>
            ELSE IF ~FullMatch(<<Item(LowerLetters \cup UpperLetters \cup Whitespace
                                        \cup {".", "-", "'"},
                                      1, Len(address_data.city))>>,
                               StrStrip(address_data.city))
            THEN << <<"City contains invalid characters">> >>
            ELSE <<>>)
  IN [valid |-> issues = <<>>, issues |-> issues]

\* The pieces of ', '.join(missing_fields).
RECURSIVE JoinPieces(_, _)
JoinPieces(sep, parts) ==
  IF parts = <<>> THEN <<>>
  ELSE IF Len(parts) = 1 THEN <<parts[1]>>
  ELSE <<parts[1], sep>> \o JoinPieces(sep, Tail(parts))

\* missing_fields of categorize_address, in order.
missing_fields(address_data) ==
     (IF IsBlank(address_data.line1)   THEN <<"street address">> ELSE <<>>)
  \o (IF IsBlank(address_data.city)    THEN <<"city">>           ELSE <<>>)
  \o (IF IsBlank(address_data.stateCd) THEN <<"state">>          ELSE <<>>)
  \o (IF IsBlank(address_data.zipCd)   THEN <<"zip code">>       ELSE <<>>)

StateNormalizationAppliedNoUpper(norm) == norm.normalized # norm.original

\* normalized_state != original_state.upper()
StateNormalizationApplied(norm) == norm.normalized # StrUpper(norm.original)

\* The result dict categorize_address starts from, after state normalization
\* and the complete-address join.
CategorizeInitial(address_data, norm) ==
  [category         |-> "invalid",
   issues           |-> <<>>,
   line1            |-> address_data.line1,
   line2            |-> address_data.line2,
   city             |-> address_data.city,
   state            |-> address_data.stateCd,
   zip              |-> address_data.zipCd,
   country          |-> StrUpper(address_data.countryCd),
   complete_address |->
     JoinWith(<<",", " ">>,
              SelectSeq(<<address_data.line1, address_data.line2, address_data.city,
                          address_data.stateCd, address_data.zipCd>>,
                        LAMBDA part : part # None /\ part # <<>>)),
   validation_notes |-> <<>>,
   normalized_state |-> norm.normalized,
   state_normalization_applied |-> StateNormalizationApplied(norm)]

ExplicitlyInternationalStripped(country) ==
  StrStrip(country) \notin {<<>>, <<"U", "S">>, <<"U", "S", "A">>}

\* Step 1: the country is given and is neither US nor USA.
ExplicitlyInternational(country) ==
  country # <<>> /\ country # <<"U", "S">> /\ country # <<"U", "S", "A">>

\* Steps 1 to 4 of categorize_address on the initial result.
CategorizeSteps(address_data, norm, result, zip_analysis) ==
  IF ExplicitlyInternational(result.country)
  THEN [result EXCEPT
          !.category = "international",
          !.validation_notes =
             <<"International address (Country: ">> \o result.country \o <<")">>]
  ELSE IF missing_fields(address_data) # <<>>
  THEN [result EXCEPT
          !.category = "invalid",
          !.issues = << <<"Missing: ">> \o JoinPieces(", ", missing_fields(address_data)) >>,
          !.validation_notes =
             <<"Invalid - Missing required fields: ">>
               \o JoinPieces(", ", missing_fields(address_data))]
  ELSE IF zip_analysis.type = "international"
  THEN [result EXCEPT
          !.category = "international",
          !.validation_notes = <<"International address - ", zip_analysis.reason>>]
  ELSE IF zip_analysis.type = "invalid"
  THEN [result EXCEPT
          !.category = "invalid",
          !.issues = << <<zip_analysis.reason>> >>,
          !.validation_notes = <<"Invalid - ", zip_analysis.reason>>]
  ELSE LET us_validation == validate_us_format(result, norm.normalized, norm.is_valid)
       IN IF us_validation.valid
          THEN [result EXCEPT
                  !.category = "us_valid",
                  !.state = norm.normalized,
                  !.validation_notes =
                     IF result.state_normalization_applied
                     THEN <<"Valid US address - State normalized from '">> \o norm.original
                            \o <<"' to '">> \o norm.normalized \o <<"'">>
                     ELSE <<"Valid US address - Ready for USPS validation">>]
          ELSE [result EXCEPT
                  !.category = "invalid",
                  !.issues = us_validation.issues,
                  !.validation_notes =
                     <<"Invalid - ">> \o JoinWith(<<"; ">>, us_validation.issues)]

\* AddressCategorizer.categorize_address: the result dict, or the
\* AttributeError of address_data.get('countryCd', 'US').upper() on a null
\* country.
categorize_address(address_data) ==
  IF address_data.countryCd = None
  THEN Raised("'NoneType' object has no attribute 'upper'")
  ELSE Returned(
         CategorizeSteps(address_data, normalize_state(address_data.stateCd),
                         CategorizeInitial(address_data,
                                           normalize_state(address_data.stateCd)),
                         IF IsBlank(address_data.zipCd)
                         THEN [type |-> "invalid", reason |-> "Empty ZIP code"]
                         ELSE analyze_zip_code(address_data.zipCd)))

(***************************************************************************)
(* core/validators.py: AddressValidator, and the retry of api/main.py      *)
(***************************************************************************)
\* One cell of a table read by pandas, as str() shows it: a missing value is
\* shown as 'nan'.
CellOrNone(cell) == IF StrStrip(cell) \in {<<>>, <<"n", "a", "n">>} THEN None ELSE StrStrip(cell)

\* A row of AddressValidator.standardize_csv_to_address_format, for a table
\* with the columns line1, city, state, zip and country and no guid column.
standardize_csv_to_address_format(row, idx) ==
  [guid      |-> IntToStr(idx + 1),
   line1     |-> CellOrNone(row.line1),
   line2     |-> None,
   city      |-> IF CellOrNone(row.city) = None THEN <<>> ELSE StrStrip(row.city),
   stateCd   |-> StrUpper(StrStrip(row.state)),
   zipCd     |-> IF CellOrNone(row.zip) = None THEN <<>> ELSE StrStrip(row.zip),
   countryCd |-> StrUpper(StrStrip(row.country))]

\* AddressValidator._create_error_result, by the fields the callers read.
_create_error_result(original_address, error_message) ==
  [guid             |-> original_address.guid,
   stateCd          |-> original_address.stateCd,
   mailabilityScore |-> "0",
   matchCode        |-> "E1",
   errorMsg         |-> error_message,
   inLine1          |-> original_address.line1,
   inLine7          |-> original_address.stateCd,
   ResultPercentage |-> "0.00"]

\* AddressValidator._determine_match_code
_determine_match_code(additional_info) ==
  IF additional_info.DPVConfirmation = "Y" THEN "A1"
  ELSE IF additional_info.DPVConfirmation = "D" THEN "B1"
  ELSE "C3"

\* _parse_usps_success_response counting the confirmation code Y only.
_parse_usps_success_response_y_only(response_data, original_address) ==
  IF response_data.address = <<>>
  THEN _create_error_result(original_address, <<"No address data in response">>)
  ELSE [guid             |-> original_address.guid,
        stateCd          |-> response_data.address.state,
        mailabilityScore |->
          IF response_data.additionalInfo.DPVConfirmation = "Y" THEN "1" ELSE "0",
        matchCode        |-> _determine_match_code(response_data.additionalInfo),
        errorMsg         |-> None,
        inLine1          |-> original_address.line1,
        inLine7          |-> original_address.stateCd,
        ResultPercentage |->
          IF response_data.additionalInfo.DPVConfirmation = "Y"
          THEN "100.00" ELSE "50.00"]

\* AddressValidator._parse_usps_success_response, by the same fields.
_parse_usps_success_response(response_data, original_address) ==
  IF response_data.address = <<>>
  THEN _create_error_result(original_address, <<"No address data in response">>)
  ELSE [guid             |-> original_address.guid,
        stateCd          |-> response_data.address.state,
        mailabilityScore |->
          IF response_data.additionalInfo.DPVConfirmation \in {"Y", "D"} THEN "1" ELSE "0",
        matchCode        |-> _determine_match_code(response_data.additionalInfo),
        errorMsg         |-> None,
        inLine1          |-> original_address.line1,
        inLine7          |-> original_address.stateCd,
        ResultPercentage |->
          IF response_data.additionalInfo.DPVConfirmation \in {"Y", "D"}
          THEN "100.00" ELSE "50.00"]

\* What a call yielded, and whether it sent a validation request.
CallOutcome(yielded, called) ==
  [raised |-> yielded.raised, error |-> yielded.error, result |-> yielded.result,
   called |-> called]

\* The required fields AddressValidator.validate_single_address finds empty.
MissingRequired(address_data) ==
     (IF StrStrip(address_data.line1)   = <<>> THEN <<"line1">>   ELSE <<>>)
  \o (IF StrStrip(address_data.city)    = <<>> THEN <<"city">>    ELSE <<>>)
  \o (IF StrStrip(address_data.stateCd) = <<>> THEN <<"stateCd">> ELSE <<>>)
  \o (IF StrStrip(address_data.zipCd)   = <<>> THEN <<"zipCd">>   ELSE <<>>)

\* AddressValidator.validate_single_address: token_ok is whether
\* get_access_token returned a token, answer is what the provider did with
\* the validation request.
AddressValidatorValidate(configured, address_data, token_ok, answer) ==
  IF ~configured
  THEN CallOutcome(Returned(_create_error_result(address_data, <<"USPS API not configured">>)),
                   FALSE)
  ELSE IF ~token_ok
  THEN CallOutcome(Returned(_create_error_result(address_data,
                                                 <<"Failed to get access token">>)), FALSE)
  ELSE IF address_data.line1 = None
  THEN CallOutcome(Raised(NoneStripError), FALSE)
  ELSE IF MissingRequired(address_data) # <<>>
  THEN CallOutcome(Returned(_create_error_result(address_data,
                     <<"Missing required fields: ">>
                       \o JoinPieces(", ", MissingRequired(address_data)))), FALSE)
  ELSE CallOutcome(
         Returned(
           IF answer.exception
           THEN _create_error_result(address_data, <<"Validation request failed">>)
           ELSE IF answer.status_code = 200
           THEN _parse_usps_success_response(answer.json, address_data)
           ELSE IF answer.status_code = 400
           THEN _create_error_result(address_data, <<"Invalid address format">>)
           ELSE IF answer.status_code = 404
           THEN _create_error_result(address_data, <<"Address not found">>)
           ELSE _create_error_result(address_data,
                                     <<"API error: HTTP ">> \o IntToStr(answer.status_code))),
         TRUE)

\* ValidationService.validate_single_address
ServiceValidateSingleAddress(configured, address_data, token_ok, answer) ==
  IF ~configured
  THEN CallOutcome(Returned(_create_error_result(address_data, <<"USPS API not configured">>)),
                   FALSE)
  ELSE AddressValidatorValidate(configured, address_data, token_ok, answer)

\* The exception text names a rate limit: "429" in error_str or
\* "Too Many Requests" in error_str.
IsRateLimitError(error_str) == error_str \in {"429", "Too Many Requests"}

max_retries == 3

\* One pass of the loop of validate_with_usps_rate_limited, attempt counted
\* from 0: the call returned, or it raised and the handler goes round again,
\* gives up with HTTP 429, or re-raises.
RetryStep(attempt, call) ==
  IF ~call.raised THEN "return"
  ELSE IF IsRateLimitError(call.error)
  THEN IF attempt < max_retries - 1 THEN "continue" ELSE "raise_429"
  ELSE IF attempt < max_retries - 1 THEN "continue" ELSE "raise"

\* What the provider can do with a validation request: answer with a status,
\* with a body for 200, or fail the request (a timeout, a refused connection).
Answer(status_code, json) == [exception |-> FALSE, status_code |-> status_code, json |-> json]

ProviderAnswers ==
  { Answer(200, [address |-> [state |-> <<"A", "R">>],
                 additionalInfo |-> [DPVConfirmation |-> d]]) : d \in {"Y", "D", "N"} }
  \cup { Answer(200, [address |-> <<>>, additionalInfo |-> [DPVConfirmation |-> ""]]) }
  \cup { Answer(c, <<>>) : c \in {400, 404, 429, 500} }
  \cup { [exception |-> TRUE, status_code |-> 0, json |-> <<>>] }

(***************************************************************************)
(* api/main.py: USPSRateLimiter                                            *)
(***************************************************************************)
\* The ticks of the clock in a second.
TicksPerSecond == 4

\* usps_rate_limiter = USPSRateLimiter(calls_per_second=2.0)
calls_per_second == 2

\* self.min_interval = 1.0 / calls_per_second, in ticks.
min_interval == TicksPerSecond \div calls_per_second

\* The clock when the service starts to serve: time.time() is far past the
\* first interval after last_call_time = 0.
StartTime == min_interval

\* The last tick of the clock looked at.
MaxTime == 7

\* The most validation calls looked at.
MaxCalls == 3

\* The requests served concurrently, each a coroutine of the one event loop.
Requests == {1, 2}

\* How long validate_single_address holds the event loop, in ticks: under a
\* tick, or a tick.
CallDurations == {0, 1}

\* wait_time of wait_if_needed: 0 when no wait is needed.
wait_time(current_time, last) ==
  IF current_time - last < min_interval THEN min_interval - (current_time - last) ELSE 0

(***************************************************************************)
(* Addresses                                                               *)
(***************************************************************************)
\* AddressRecord of core/models.py: line1 and countryCd may be null, city,
\* stateCd and zipCd are strings.
AddressRecords ==
  [guid : {<<"1">>},
   line2 : {None},
   line1 :
     {None, <<>>, <<"1","2"," ","M","a","i","n"," ","S","t">>, <<"1","2">>},
   city :
     {<<>>, <<" ">>, <<"B","a","t","e","s","v","i","l","l","e">>, <<"B","4">>, <<"B">>, <<"4">>},
   stateCd :
     {<<>>, <<" ">>, <<"A","R">>, <<"a","r">>, <<"A","r","k","a","n","s","a","s">>,
     <<"k","y">>, <<"n","."," ","c","a","r","o","l","i","n","a">>, <<"z","z">>,
     <<"N",".","Y",".">>, <<"I","O","W","A">>, <<DotlessI, "o", "w", "a">>},
   zipCd :
     {<<>>, <<"7","2","5","0","1">>, <<"7","2","5","0","1","-","1","2","3","4">>,
     <<"1","2","3","4","5","6","7","8","9">>, <<"M","5","V"," ","3","A","8">>,
     <<"9","9","9","9","9","9","9","9","9","9","9">>, <<"1","2","3","4">>},
   countryCd :
     {None, <<>>, <<"U","S">>, <<"u","s","a">>, <<"C","A">>, <<" ","u","s">>}]

MaxRows == 2

FileName == <<"a",".","c","s","v">>

\* A row of an uploaded table, cell by cell as str() shows it.
CsvRow(line1, city, state, zip, country) ==
  [line1 |-> line1, city |-> city, state |-> state, zip |-> zip, country |-> country]

CsvRows ==
  { CsvRow(<<"1","2"," ","M","a","i","n"," ","S","t">>, <<"B","a","t","e","s","v","i","l","l","e">>, <<"A","r","k","a","n","s","a","s">>, <<"7","2","5","0","1">>, <<"U","S">>),
    CsvRow(<<"3","4"," ","O","a","k"," ","A","v","e">>, <<"C","o","n","w","a","y">>, <<"a","r">>, <<"7","2","0","3","2">>, <<"n","a","n">>),
    CsvRow(<<"n","a","n">>, <<"B","a","t","e","s","v","i","l","l","e">>, <<"A","R">>, <<"7","2","5","0","1">>, <<"u","s","a">>),
    CsvRow(<<"1","0"," ","R","u","e"," ","C","l","e","r">>, <<"P","a","r","i","s">>, <<"n","a","n">>, <<"7","5","0","0","7">>, <<"F","R">>) }

\* The batches of at most MaxRows addresses that differ in line1, which may
\* be null.
AddressBatches ==
  UNION {[1..n -> {a \in AddressRecords :
                     /\ a.city = <<"B","a","t","e","s","v","i","l","l","e">>
                     /\ a.stateCd = <<"A","R">>
                     /\ a.zipCd = <<"7","2","5","0","1">>
                     /\ a.countryCd = <<"U","S">>}] : n \in 0..MaxRows}

\* The tables of at most MaxRows rows.
CsvTables == UNION {[1..n -> CsvRows] : n \in 0..MaxRows}

(***************************************************************************)
(* The service as a state machine                                          *)
(***************************************************************************)
VARIABLES
  dictionaries,     \* the dictionary directory the service was constructed on
  name_validator,   \* ValidationService.name_validator
  pc,               \* "ready", "returned", "raised", "loop" or "done"
  record,           \* the argument of a direct validate_name_record call
  outcome,          \* what that call yielded
  names,            \* names_data['names'] of a validate_names call
  acc,              \* results and method_stats of the running validate_names call
  response,         \* what validate_names returned
  apc,              \* where the address side of the service is
  address,          \* the address record of the running address call
  categorized,      \* what categorize_address yielded for it
  recategorized,    \* what it yielded for the record with the normalized state
  configured,       \* AddressValidator.is_configured(): the credentials are set
  usps_address,     \* the argument of the running validate_with_usps_rate_limited
  attempt,          \* the passes of its loop made so far
  provider_calls,   \* the validation requests sent to the provider in this call
  usps_result,      \* result["usps_result"] of the endpoint: <<>> for None, or <<result>>
  upload,           \* the lists of the running upload_address_csv
  address_batch,    \* addresses and results of validate_addresses_batch
  now,              \* time.time(), in ticks
  last_call_time,   \* usps_rate_limiter.last_call_time, in ticks
  waiters,          \* where each request stands in wait_if_needed, and when it wakes
  call_times        \* the times at which the validation calls behind the limiter began

namevars == <<dictionaries, name_validator, pc, record, outcome, names, acc, response>>

catvars == <<address, categorized, recategorized>>

uspsvars == <<usps_address, attempt, provider_calls, usps_result>>

addrvars == <<apc, catvars, configured, uspsvars, upload, address_batch>>

limvars == <<now, last_call_time, waiters, call_times>>

vars == <<namevars, addrvars, limvars>>

\* The limiter as constructed, the clock past the first interval, no request
\* inside wait_if_needed.
LimiterIdle ==
  /\ now = StartTime
  /\ last_call_time = 0
  /\ waiters = [r \in Requests |-> [at |-> "out", wake |-> 0]]
  /\ call_times = <<>>

\* The address side at rest.
AddressIdle ==
  /\ LimiterIdle
  /\ apc = "idle"
  /\ address = <<>>
  /\ categorized = <<>>
  /\ recategorized = <<>>
  /\ usps_address = <<>>
  /\ attempt = 0
  /\ provider_calls = <<>>
  /\ usps_result = <<>>
  /\ upload = <<>>
  /\ address_batch = <<>>

EmptyAcc == [results |-> <<>>, method_stats |-> InitialMethodStats]

Init ==
  /\ dictionaries \in DictionaryDirs
  /\ name_validator = NameValidatorInit(dictionaries)
  /\ pc = "ready"
  /\ record = <<>>
  /\ outcome = <<>>
  /\ names = <<>>
  /\ acc = EmptyAcc
  /\ response = <<>>
  /\ configured = FALSE
  /\ AddressIdle

\* A direct call NameValidator.validate_name_record(rec).
ValidateNameRecord ==
  /\ pc = "ready"
  /\ \E rec \in NameRecords :
       /\ record' = rec
       /\ outcome' = validate_name_record(name_validator, rec)
  /\ pc' = IF outcome'.raised THEN "raised" ELSE "returned"
  /\ UNCHANGED <<dictionaries, name_validator, names, acc, response, addrvars, limvars>>

\* ValidationService.validate_names(names_data): entry, up to the loop.
ValidateNamesBegin ==
  /\ pc = "ready"
  /\ \E batch \in Batches(MaxBatch) : names' = batch
  /\ acc' = EmptyAcc
  /\ pc' = "loop"
  /\ UNCHANGED <<dictionaries, name_validator, record, outcome, response, addrvars, limvars>>

\* One iteration of the loop over names.
ValidateNamesStep ==
  /\ pc = "loop"
  /\ Len(acc.results) < Len(names)
  /\ acc' = validate_names_step(name_validator, acc, names[Len(acc.results) + 1])
  /\ UNCHANGED <<dictionaries, name_validator, pc, record, outcome, names, response, addrvars, limvars>>

\* The loop is over: the response is built and returned.
ValidateNamesReturn ==
  /\ pc = "loop"
  /\ Len(acc.results) = Len(names)
  /\ response' = NamesResponse(acc, name_validator.dictionary_loaded)
  /\ pc' = "done"
  /\ UNCHANGED <<dictionaries, name_validator, record, outcome, names, acc, addrvars, limvars>>

\* A call NameValidator._enhanced_parse_name on 'prefix first middle last
\* suffix'.
ParseCanonicalName ==
  /\ pc = "ready"
  /\ \E n \in CanonicalNames(name_validator) :
       /\ record' = n
       /\ outcome' = Returned(_enhanced_parse_name(name_validator,
                        StrJoin(<<n.prefix, n.first_name, n.middle_name, n.last_name,
                                  n.suffix>>)))
  /\ pc' = "parsed"
  /\ UNCHANGED <<dictionaries, name_validator, names, acc, response, addrvars, limvars>>

\* A call ValidationService.process_csv_names(df), df holding a name column.
ProcessCsvNames ==
  /\ pc = "ready"
  /\ \E cells \in NameColumns :
       /\ names' = CsvNameRecords(cells, 0)
       /\ response' = process_csv_names(name_validator, cells)
  /\ pc' = "csv_done"
  /\ UNCHANGED <<dictionaries, name_validator, record, outcome, acc, addrvars, limvars>>

\* The call is over, by a return or by an exception; the service created at
\* startup, and its validator, stay to serve the next call.
NextRequest ==
  /\ pc \in {"returned", "raised", "done", "csv_done", "parsed"}
  /\ pc' = "ready"
  /\ record' = <<>>
  /\ outcome' = <<>>
  /\ names' = <<>>
  /\ acc' = EmptyAcc
  /\ response' = <<>>
  /\ UNCHANGED <<dictionaries, name_validator, addrvars, limvars>>

Next ==
  \/ ValidateNameRecord
  \/ ValidateNamesBegin
  \/ ValidateNamesStep
  \/ ValidateNamesReturn
  \/ ProcessCsvNames
  \/ ParseCanonicalName
  \/ NextRequest

Spec == Init /\ [][Next]_vars

(***************************************************************************)
(* The address side of the service                                         *)
(***************************************************************************)
\* A call AddressCategorizer.categorize_address(address_data).
CategorizeAddress ==
  /\ apc = "idle"
  /\ \E a \in AddressRecords :
       /\ address' = a
       /\ categorized' = categorize_address(a)
  /\ apc' = "categorized"
  /\ UNCHANGED <<namevars, limvars, recategorized, configured, uspsvars, upload, address_batch>>

\* The categorized record, with its state replaced by the normalized state,
\* is categorized again.
RecategorizeAddress ==
  /\ apc = "categorized"
  /\ ~categorized.raised
  /\ recategorized' =
       categorize_address([address EXCEPT !.stateCd = categorized.result.normalized_state])
  /\ apc' = "recategorized"
  /\ UNCHANGED <<namevars, limvars, address, categorized, configured, uspsvars, upload, address_batch>>

CallsProviderWhenAvailable(category, available) == available

\* The guard of the endpoint's provider step.
CallsProvider(category, available) == category = "us_valid" /\ available

\* POST /api/validate-address, up to the provider: the address is categorized
\* and, if it is us_valid and the validator is configured, handed on with its
\* normalized state.
EndpointValidateAddress ==
  /\ apc = "idle"
  /\ \E a \in AddressRecords :
       /\ address' = a
       /\ categorized' = categorize_address(a)
       /\ usps_address' =
            IF ~categorized'.raised /\ CallsProvider(categorized'.result.category, configured)
            THEN [a EXCEPT !.stateCd = categorized'.result.normalized_state]
            ELSE <<>>
  /\ apc' = IF categorized'.raised THEN "endpoint_failed"
            ELSE IF usps_address' # <<>> THEN "endpoint_usps"
            ELSE "endpoint_returned"
  /\ UNCHANGED <<namevars, limvars, recategorized, configured, attempt, provider_calls, usps_result,
                 upload, address_batch>>

\* The provider log after a call of the validation service.
LogCall(call, answer) ==
  IF call.called
  THEN Append(provider_calls, [address |-> usps_address, answer |-> answer])
  ELSE provider_calls

\* One pass of the loop of validate_with_usps_rate_limited for the endpoint,
\* and what the endpoint does with its outcome.
EndpointUspsAttempt ==
  /\ apc = "endpoint_usps"
  /\ \E token_ok \in BOOLEAN, answer \in ProviderAnswers :
       LET call == ServiceValidateSingleAddress(configured, usps_address, token_ok, answer)
           step == RetryStep(attempt, call)
       IN /\ provider_calls' = LogCall(call, answer)
          /\ usps_result' = IF step = "return" THEN <<call.result>> ELSE usps_result
          /\ apc' = CASE step = "return"    -> "endpoint_returned"
                      [] step = "continue"  -> "endpoint_usps"
                      [] step = "raise_429" -> "endpoint_failed"
                      [] step = "raise"     -> "endpoint_returned"
  /\ attempt' = attempt + 1
  /\ UNCHANGED <<namevars, limvars, catvars, configured, usps_address, upload, address_batch>>

\* all_us_valid[i] as the address handed to the provider.
CsvUspsAddress(us_addr) ==
  [guid      |-> FileName \o <<"_">> \o IntToStr(us_addr.row_number),
   line1     |-> us_addr.categorization.line1,
   line2     |-> IF us_addr.categorization.line2 = <<>> THEN None
                 ELSE us_addr.categorization.line2,
   city      |-> us_addr.categorization.city,
   stateCd   |-> us_addr.categorization.normalized_state,
   zipCd     |-> us_addr.categorization.zip,
   countryCd |-> <<"U", "S">>]

\* The rows of one category, each with its row number.
CategorizedAs(category, addresses) ==
  SelectSeq([i \in DOMAIN addresses |->
               [row_number |-> i, categorization |-> categorize_address(addresses[i]).result]],
            LAMBDA c : IF category = "invalid"
                       THEN c.categorization.category \notin {"us_valid", "international"}
                       ELSE c.categorization.category = category)

\* POST /api/upload-address-csv, up to the provider: the table is read,
\* standardized and categorized into the three lists.
UploadAddressCsv ==
  /\ apc = "idle"
  /\ \E table \in CsvTables :
       LET addresses == [i \in DOMAIN table |-> standardize_csv_to_address_format(table[i], i - 1)]
           failed    == \E i \in DOMAIN addresses : categorize_address(addresses[i]).raised
           kept      == IF failed THEN <<>> ELSE addresses
       IN upload' = [us_valid      |-> CategorizedAs("us_valid", kept),
                     international |-> CategorizedAs("international", kept),
                     invalid       |-> CategorizedAs("invalid", kept),
                     usps_results  |-> <<>>]
  /\ IF upload'.us_valid # <<>> /\ configured
     THEN /\ apc' = "csv_usps"
          /\ usps_address' = CsvUspsAddress(upload'.us_valid[1])
     ELSE /\ apc' = "csv_returned"
          /\ usps_address' = <<>>
  /\ UNCHANGED <<namevars, limvars, catvars, configured, attempt, provider_calls, usps_result,
                 address_batch>>

\* The entry of usps_results for one us_valid row: the enhanced result, or
\* the error result of a call that gave up.
CsvUspsResult(us_addr, step, call) ==
  [row_number       |-> us_addr.row_number,
   category         |-> CASE step = "return"    -> "us_usps_validated"
                          [] step = "raise_429" -> "us_rate_limited"
                          [] step = "raise"     -> "us_usps_error",
   normalized_state |-> us_addr.categorization.normalized_state,
   usps_valid       |-> step = "return" /\ call.result.mailabilityScore = "1",
   full_usps_result |-> IF step = "return" THEN call.result ELSE None]

\* One pass of the loop of validate_with_usps_rate_limited for the current
\* us_valid row of the upload, and what the upload does with its outcome.
CsvUspsAttempt ==
  /\ apc = "csv_usps"
  /\ \E token_ok \in BOOLEAN, answer \in ProviderAnswers :
       LET call    == ServiceValidateSingleAddress(configured, usps_address, token_ok, answer)
           step    == RetryStep(attempt, call)
           i       == Len(upload.usps_results) + 1
       IN /\ provider_calls' = LogCall(call, answer)
          /\ IF step = "continue"
             THEN /\ attempt' = attempt + 1
                  /\ UNCHANGED <<apc, upload, usps_address>>
             ELSE /\ attempt' = 0
                  /\ upload' = [upload EXCEPT !.usps_results =
                                  Append(@, CsvUspsResult(upload.us_valid[i], step, call))]
                  /\ IF i < Len(upload.us_valid)
                     THEN /\ apc' = "csv_usps"
                          /\ usps_address' = CsvUspsAddress(upload.us_valid[i + 1])
                     ELSE /\ apc' = "csv_returned"
                          /\ usps_address' = <<>>
  /\ UNCHANGED <<namevars, limvars, catvars, configured, usps_result, address_batch>>

\* A call AddressValidator.validate_addresses_batch(addresses), up to the loop.
ValidateAddressesBatchBegin ==
  /\ apc = "idle"
  /\ \E addresses \in AddressBatches :
       address_batch' = [addresses |-> addresses, results |-> <<>>, calls |-> <<>>]
  /\ apc' = IF address_batch'.addresses = <<>> THEN "batch_returned" ELSE "batch_loop"
  /\ usps_address' = IF address_batch'.addresses = <<>> THEN <<>>
                      ELSE address_batch'.addresses[1]
  /\ UNCHANGED <<namevars, limvars, catvars, configured, attempt, provider_calls, usps_result, upload>>

\* What get_access_token and the provider did for one address: whether a
\* token came back, whether the validation request was sent, and its answer.
ProviderExchange(configured_, token_ok, call, answer) ==
  [token_ok |-> configured_ /\ token_ok,
   called   |-> call.called,
   answer   |-> IF call.called THEN answer ELSE Answer(0, <<>>)]

\* One iteration of its loop: the result of the address, or the error result
\* made of the exception it raised.
ValidateAddressesBatchStep ==
  /\ apc = "batch_loop"
  /\ \E token_ok \in BOOLEAN, answer \in ProviderAnswers :
       LET call == AddressValidatorValidate(configured, usps_address, token_ok, answer)
           i    == Len(address_batch.results) + 1
       IN /\ provider_calls' = LogCall(call, answer)
          /\ address_batch' =
               [address_batch EXCEPT
                  !.results =
                    Append(@, IF call.raised
                              THEN _create_error_result(usps_address, <<call.error>>)
                              ELSE call.result),
                  !.calls = Append(@, ProviderExchange(configured, token_ok, call, answer))]
          /\ IF i < Len(address_batch.addresses)
             THEN /\ apc' = "batch_loop"
                  /\ usps_address' = address_batch.addresses[i + 1]
             ELSE /\ apc' = "batch_returned"
                  /\ usps_address' = <<>>
  /\ UNCHANGED <<namevars, limvars, catvars, configured, attempt, usps_result, upload>>

\* The address call is over, by a return or by an HTTP error; the service
\* stays to serve the next one.
AddressNextRequest ==
  /\ apc \in {"categorized", "recategorized", "endpoint_returned", "endpoint_failed",
              "csv_returned", "batch_returned"}
  /\ apc' = "idle"
  /\ address' = <<>>
  /\ categorized' = <<>>
  /\ recategorized' = <<>>
  /\ usps_address' = <<>>
  /\ attempt' = 0
  /\ provider_calls' = <<>>
  /\ usps_result' = <<>>
  /\ upload' = <<>>
  /\ address_batch' = <<>>
  /\ UNCHANGED <<namevars, limvars, configured>>

\* The service at startup, seen from its address operations, which read
\* nothing of the name validator.
AddressInit ==
  /\ dictionaries \in {d \in DictionaryDirs : ~d.path_exists}
  /\ name_validator = NameValidatorInit(dictionaries)
  /\ pc = "ready"
  /\ record = <<>>
  /\ outcome = <<>>
  /\ names = <<>>
  /\ acc = EmptyAcc
  /\ response = <<>>
  /\ configured \in BOOLEAN
  /\ AddressIdle

AddressNext ==
  \/ CategorizeAddress
  \/ RecategorizeAddress
  \/ EndpointValidateAddress
  \/ EndpointUspsAttempt
  \/ UploadAddressCsv
  \/ CsvUspsAttempt
  \/ ValidateAddressesBatchBegin
  \/ ValidateAddressesBatchStep
  \/ AddressNextRequest

AddressSpec == AddressInit /\ [][AddressNext]_vars

(***************************************************************************)
(* Concurrent requests at the rate limiter                                 *)
(***************************************************************************)
\* The rest of validate_with_usps_rate_limited once wait_if_needed has set
\* last_call_time: the validation call begins at once and holds the event
\* loop for its duration.
CallBehindLimiter(r) ==
  /\ last_call_time' = now
  /\ call_times' = Append(call_times, now)
  /\ \E d \in CallDurations : now + d <= MaxTime /\ now' = now + d
  /\ waiters' = [waiters EXCEPT ![r] = [at |-> "out", wake |-> 0]]

\* A request enters wait_if_needed and needs no wait: it runs on to the call
\* with no await in between.
LimiterPass(r) ==
  /\ waiters[r].at = "out"
  /\ Len(call_times) < MaxCalls
  /\ wait_time(now, last_call_time) = 0
  /\ CallBehindLimiter(r)
  /\ UNCHANGED <<namevars, addrvars>>

\* A request enters wait_if_needed and has to wait: it computes wait_time from
\* the last_call_time it reads and gives up the event loop in asyncio.sleep.
LimiterSleep(r) ==
  /\ waiters[r].at = "out"
  /\ Len(call_times) < MaxCalls
  /\ wait_time(now, last_call_time) > 0
  /\ waiters' = [waiters EXCEPT ![r] = [at |-> "sleep",
                                         wake |-> now + wait_time(now, last_call_time)]]
  /\ UNCHANGED <<namevars, addrvars, now, last_call_time, call_times>>

\* A request comes back from asyncio.sleep, not before its wait is over, and
\* runs on: last_call_time is set and the call begins.
LimiterWake(r) ==
  /\ waiters[r].at = "sleep"
  /\ now >= waiters[r].wake
  /\ CallBehindLimiter(r)
  /\ UNCHANGED <<namevars, addrvars>>

\* Time passes while no coroutine runs.
Tick ==
  /\ now < MaxTime
  /\ now' = now + 1
  /\ UNCHANGED <<namevars, addrvars, last_call_time, waiters, call_times>>

LimiterNext ==
  \/ \E r \in Requests : LimiterPass(r)
  \/ \E r \in Requests : LimiterSleep(r)
  \/ \E r \in Requests : LimiterWake(r)
  \/ Tick

\* The service with several address requests in flight, seen at the limiter
\* they share.
LimiterSpec == AddressInit /\ [][LimiterNext]_vars

TypeOK ==
  /\ pc \in {"ready", "returned", "raised", "loop", "done", "csv_done", "parsed"}
  /\ name_validator = NameValidatorInit(dictionaries)

(***************************************************************************)
(* Properties                                                              *)
(***************************************************************************)
\* Every result the state holds: that of the direct call, those of the batch.
AllResults ==
  (IF pc = "returned" THEN {outcome.result} ELSE {}) \cup Range(acc.results)

\* A number of points as a confidenceScore.
Points(n) == n * ConfScale

IsParsedIndividual(r) ==
  r.partyTypeCd = <<"I">> /\ r.parseStatus \in {"Parsed", "Warning"}

\* The dictionary hits, read off a parsed result and the loaded tables.
FirstNameKnown(r) ==
  r.firstName # <<>> /\ StrLower(r.firstName) \in name_validator.first_names_set

LastNameKnown(r) ==
  r.lastName # <<>> /\ StrLower(r.lastName) \in name_validator.surnames_set

GenderKnown(r) ==
  /\ r.outGenderCd # <<>>
  /\ r.firstName # <<>>
  /\ StrLower(r.firstName) \in DOMAIN name_validator.name_to_gender

\* The contributing sub-decisions resolved by a dictionary hit, and the others.
DictionaryVotes(r) ==
  Cardinality({d \in {"first", "last", "gender"} :
     \/ d = "first" /\ FirstNameKnown(r)
     \/ d = "last" /\ LastNameKnown(r)
     \/ d = "gender" /\ GenderKnown(r)})

HeuristicVotes(r) ==
  Cardinality({d \in {"first", "last", "gender"} :
     \/ d = "first" /\ r.firstName # <<>> /\ ~FirstNameKnown(r)
     \/ d = "last" /\ r.lastName # <<>> /\ ~LastNameKnown(r)
     \/ d = "gender" /\ r.outGenderCd # <<>> /\ ~GenderKnown(r)})

\* C1: every confidenceScore is at least 0 and at most 99.9995, and never 100.
C1_ConfidenceBound ==
  \A r \in AllResults :
     /\ r.confidenceScore >= 0
     /\ r.confidenceScore <= 999995
     /\ r.confidenceScore # Points(100)

\* C1 witness: two name hits and a gender hit, 100 raw points, are returned as 99.
C1_Witness ==
  /\ pc = "returned"
  /\ IsParsedIndividual(outcome.result)
  /\ DictionaryVotes(outcome.result) = 3
  /\ outcome.result.confidenceScore = Points(99)

\* C2: a parsed individual with both names in their dictionaries is
\* 'deterministic' whatever the gender signal; with neither it never is.
C2_MethodMonotonicity ==
  \A r \in AllResults :
     IsParsedIndividual(r) =>
       /\ (FirstNameKnown(r) /\ LastNameKnown(r)
             => r.validationMethod = "deterministic")
       /\ (~FirstNameKnown(r) /\ ~LastNameKnown(r)
             => r.validationMethod # "deterministic")

\* C2 witness: both names known, the gender guessed, the method deterministic.
C2_Witness ==
  /\ pc = "returned"
  /\ IsParsedIndividual(outcome.result)
  /\ FirstNameKnown(outcome.result)
  /\ LastNameKnown(outcome.result)
  /\ outcome.result.outGenderCd # <<>>
  /\ ~GenderKnown(outcome.result)
  /\ outcome.result.validationMethod = "deterministic"

HasNull(rec) == \E f \in NameFields : rec[f] = None

\* C4: validate_names yields one result per record, in order; a record that
\* raises yields the error result, and the records after it are processed.
C4_FailureIsolation ==
  /\ Len(acc.results) <= Len(names)
  /\ \A i \in 1..Len(acc.results) :
        /\ acc.results[i].uniqueID = names[i].uniqueID
        /\ IF HasNull(names[i])
           THEN /\ acc.results[i].parseStatus = "Error"
                /\ acc.results[i].confidenceScore = 0
                /\ acc.results[i].validationMethod = "error"
                /\ acc.results[i].errorMessage = <<"Processing error: ", NoneStripError>>
                /\ acc.results[i].fullName = names[i].fullName
           ELSE /\ acc.results[i].parseStatus # "Error"
                /\ acc.results[i].validationMethod # "error"
                /\ acc.results[i].fullName = StrStrip(names[i].fullName)
  /\ pc = "done" =>
        /\ response.names = acc.results
        /\ Len(response.names) = Len(names)
        /\ response.processing_stats.total_processed = Len(names)

\* C4 witness: the first record of a batch raised and the second was processed.
C4_Witness ==
  /\ pc = "done"
  /\ Len(names) = 2
  /\ HasNull(names[1])
  /\ ~HasNull(names[2])
  /\ response.names[1].validationMethod = "error"
  /\ response.names[2].parseStatus = "Organization"

\* C5 as claimed: no call of validate_name_record is left by an exception.
C5_NeverRaises == pc # "raised"

\* The result of validating a record alone on the validator fresh.
AloneResult(fresh, rec) == validate_names_step(fresh, EmptyAcc, rec).results[1]

\* C6: each result of a batch is the result of validating its record alone on a
\* validator freshly loaded from the same dictionary files, and validating
\* leaves the validator as it was loaded.
C6_NoCrossRecordState ==
  LET fresh == NameValidatorInit(dictionaries)
  IN /\ name_validator = fresh
     /\ \A i \in 1..Len(acc.results) : acc.results[i] = AloneResult(fresh, names[i])

\* C6 witness: two records sharing a uniqueID got their own, different results.
C6_Witness ==
  /\ Len(acc.results) = 2
  /\ names[1].uniqueID = names[2].uniqueID
  /\ names[1].fullName # names[2].fullName
  /\ acc.results[1].validationMethod # acc.results[2].validationMethod

IsExplicitOrganization(r) ==
  /\ r.partyTypeCd = <<"O">>
  /\ r.parseStatus = "Organization"
  /\ r.confidenceScore = Points(99)
  /\ r.validationMethod = "explicit_org"

\* C7 as claimed: partyTypeCd 'O' gives the explicit organization result for
\* every fullName.
C7_ExplicitOrgEveryName ==
  pc = "returned" /\ record.partyTypeCd = <<"O">>
    => IsExplicitOrganization(outcome.result)

\* C7 amended: partyTypeCd 'O' gives the explicit organization result for every
\* fullName that is not blank; a blank fullName is returned as an individual.
C7_ExplicitOrgNonBlankName ==
  pc = "returned" /\ record.partyTypeCd = <<"O">>
    => IF StrStrip(record.fullName) # <<>>
       THEN IsExplicitOrganization(outcome.result)
       ELSE /\ outcome.result.partyTypeCd = <<"I">>
            /\ outcome.result.parseStatus # "Organization"

\* C7 witness: the hint wins over a known first name and a known surname.
C7_Witness ==
  /\ pc = "returned"
  /\ record.partyTypeCd = <<"O">>
  /\ record.fullName = StrJoin(<<Mary, Smith>>)
  /\ StrLower(Mary) \in name_validator.first_names_set
  /\ StrLower(Smith) \in name_validator.surnames_set
  /\ IsExplicitOrganization(outcome.result)

OrganizationResults == {r \in AllResults : r.parseStatus = "Organization"}

\* C8 as claimed: every Organization result scores between 92 and 99.
C8_OrganizationBand ==
  \A r \in OrganizationResults :
     r.confidenceScore >= Points(92) /\ r.confidenceScore <= Points(99)

\* C8 amended: an Organization result scores between 92 and 99 when the hint, a
\* company suffix or a business word decided, and between 74 and 80 when the
\* heuristic pattern matching did.
C8_OrganizationBandByRule ==
  \A r \in OrganizationResults :
     IF r.validationMethod = "ai_pattern_matching"
     THEN r.confidenceScore >= Points(74) /\ r.confidenceScore <= Points(80)
     ELSE /\ r.validationMethod \in
               {"explicit_org", "deterministic_suffix", "deterministic_business_word"}
          /\ r.confidenceScore >= Points(92)
          /\ r.confidenceScore <= Points(99)

\* C8 witness: a heuristic organization at the bottom of its band.
C8_Witness ==
  /\ pc = "returned"
  /\ outcome.result.parseStatus = "Organization"
  /\ outcome.result.validationMethod = "ai_pattern_matching"
  /\ outcome.result.confidenceScore = Points(74)

\* The scenario of C9: 'Bill Smith', no hints, dictionaries loaded, 'smith' a
\* known surname, 'bill' no known first name, and no other table touching the name.
BillSmithScenario ==
  /\ pc = "returned"
  /\ record.fullName = StrJoin(<<Bill, Smith>>)
  /\ record.genderCd = <<>>
  /\ record.partyTypeCd = <<>>
  /\ record.parseInd = <<>>
  /\ name_validator.dictionary_loaded
  /\ StrLower(Smith) \in name_validator.surnames_set
  /\ StrLower(Bill) \notin name_validator.first_names_set
  /\ StrLower(Bill) \notin DOMAIN name_validator.nickname_to_standard
  /\ StrLower(Bill) \notin name_validator.name_prefixes_set
  /\ \A sfx \in name_validator.company_suffixes_set :
        ~Contains(sfx, StrLower(StrJoin(<<Bill, Smith>>)))
  /\ name_validator.business_words_set \cap {StrLower(Bill), StrLower(Smith)} = {}

William == <<"W","i","l","l","i","a","m">>

\* C9 as claimed: in the scenario the method is hybrid or ai_fallback for every
\* gender table.
C9_BillSmithNeverDeterministic ==
  BillSmithScenario =>
    /\ outcome.result.firstName = Bill
    /\ outcome.result.firstNameStd = William
    /\ outcome.result.validationMethod \in {"hybrid", "ai_fallback"}

\* C9 amended: in the scenario the method is hybrid when the gender table has no
\* 'bill', and deterministic when it has.
C9_BillSmithByGenderTable ==
  BillSmithScenario =>
    /\ outcome.result.firstName = Bill
    /\ outcome.result.firstNameStd = William
    /\ outcome.result.validationMethod =
         IF StrLower(Bill) \in DOMAIN name_validator.name_to_gender
         THEN "deterministic" ELSE "hybrid"

\* C9 witness: the scenario with a gender table without 'bill'.
C9_Witness ==
  /\ BillSmithScenario
  /\ StrLower(Bill) \notin DOMAIN name_validator.name_to_gender
  /\ outcome.result.validationMethod = "hybrid"

SpecMethods ==
  {"deterministic", "hybrid", "ai_fallback", "explicit_org", "explicit_individual",
   "no_parse", "error"}

\* C10 as claimed: every validationMethod is one of the seven listed methods.
C10_MethodEnumeration ==
  \A r \in AllResults : r.validationMethod \in SpecMethods

\* C10 amended: every validationMethod is one of the seven listed methods or one
\* of the three organization methods.
C10_MethodEnumerationWithOrgRules ==
  \A r \in AllResults :
     r.validationMethod \in
       SpecMethods \cup
       {"deterministic_suffix", "deterministic_business_word", "ai_pattern_matching"}

\* C10 witness: an organization found by a company suffix.
C10_Witness ==
  /\ pc = "returned"
  /\ outcome.result.parseStatus = "Organization"
  /\ outcome.result.validationMethod = "deterministic_suffix"

(***************************************************************************)
(* Address categorization                                                  *)
(***************************************************************************)
MainSt == <<"1","2"," ","M","a","i","n"," ","S","t">>

Batesville == <<"B","a","t","e","s","v","i","l","l","e">>

AppearsIn(name, messages) == \E i \in DOMAIN messages : name \in Range(messages[i])

AllWhitespace(s) == \A i \in DOMAIN s : s[i] \in Whitespace

\* C11: categorizing a record, and categorizing it again with its state
\* replaced by the normalized state the first run returned, give the same
\* category.
C11_IdempotentCategorization ==
  apc = "recategorized" =>
    /\ ~recategorized.raised
    /\ recategorized.result.category = categorized.result.category

\* The country is given, and is neither US nor USA in any letter case.
HasForeignCountry(a) ==
  /\ a.countryCd # None
  /\ a.countryCd # <<>>
  /\ StrLower(a.countryCd) \notin {<<"u","s">>, <<"u","s","a">>}

\* C12: an address whose country is given and is neither US nor USA is
\* international, whatever its other fields are.
C12_ExplicitCountryShortCircuit ==
  apc = "categorized" /\ HasForeignCountry(address) =>
    /\ ~categorized.raised
    /\ categorized.result.category = "international"

C12_Witness ==
  /\ apc = "categorized"
  /\ HasForeignCountry(address)
  /\ address.line1 = <<>>
  /\ address.zipCd = <<"9","9","9","9","9","9","9","9","9","9","9">>
  /\ categorized.result.category = "international"

\* The country is US or USA in any letter case, or empty.
HasDomesticCountry(a) ==
  a.countryCd # None /\ StrLower(a.countryCd) \in {<<>>, <<"u","s">>, <<"u","s","a">>}

\* The required fields of an address that are missing, empty or whitespace.
BlankFields(a) ==
  {f \in {"line1", "city", "stateCd", "zipCd"} : a[f] = None \/ AllWhitespace(a[f])}

FieldName(f) ==
  CASE f = "line1"   -> "street address"
    [] f = "city"    -> "city"
    [] f = "stateCd" -> "state"
    [] f = "zipCd"   -> "zip code"

\* C13: a US address with a blank required field is invalid, and its issues
\* name every blank field, whatever the other fields hold.
C13_MissingFieldsInvalid ==
  apc = "categorized" /\ HasDomesticCountry(address) /\ BlankFields(address) # {} =>
    /\ ~categorized.raised
    /\ categorized.result.category = "invalid"
    /\ \A f \in BlankFields(address) : AppearsIn(FieldName(f), categorized.result.issues)

C13_Witness ==
  /\ apc = "categorized"
  /\ HasDomesticCountry(address)
  /\ BlankFields(address) = {"line1", "city"}
  /\ address.zipCd = <<"M","5","V"," ","3","A","8">>
  /\ address.stateCd = <<"z","z">>
  /\ categorized.result.category = "invalid"

\* A US address whose fields other than the state are valid.
OtherwiseValid(a) ==
  /\ HasDomesticCountry(a)
  /\ a.line1 = MainSt
  /\ a.city = Batesville
  /\ a.zipCd \in {<<"7","2","5","0","1">>, <<"7","2","5","0","1","-","1","2","3","4">>}

\* The state is a full state name or a listed variant, in any letter case.
IsListedState(state) == StrLower(state) \in DOMAIN state_name_to_code

\* The state is a valid 2-letter code, in any letter case.
IsStateCode(state) == Len(state) = 2 /\ StrUpper(state) \in valid_state_codes

\* C14, as stated: every listed name or variant is normalized to its code
\* with state_normalization_applied true; a valid 2-letter code gives false.
C14_StateNormalization ==
  apc = "categorized" /\ OtherwiseValid(address) =>
    /\ IsListedState(address.stateCd) =>
         /\ categorized.result.normalized_state = state_name_to_code[StrLower(address.stateCd)]
         /\ categorized.result.category = "us_valid"
         /\ categorized.result.state_normalization_applied
    /\ IsStateCode(address.stateCd) => ~categorized.result.state_normalization_applied

\* C14, amended: a listed name or variant is normalized to its code and is
\* us_valid; state_normalization_applied is true for it unless it is itself a
\* 2-letter code, and false for every valid 2-letter code.
C14_StateNormalizationUnlessCode ==
  apc = "categorized" /\ OtherwiseValid(address) =>
    /\ IsListedState(address.stateCd) =>
         /\ categorized.result.normalized_state = state_name_to_code[StrLower(address.stateCd)]
         /\ categorized.result.category = "us_valid"
         /\ ~IsStateCode(address.stateCd) => categorized.result.state_normalization_applied
    /\ IsStateCode(address.stateCd) =>
         /\ categorized.result.normalized_state = StrUpper(address.stateCd)
         /\ categorized.result.category = "us_valid"
         /\ ~categorized.result.state_normalization_applied

C14_Witness ==
  /\ apc = "categorized"
  /\ OtherwiseValid(address)
  /\ address.stateCd = <<"A","r","k","a","n","s","a","s">>
  /\ categorized.result.normalized_state = <<"A","R">>
  /\ categorized.result.state_normalization_applied

(***************************************************************************)
(* The provider                                                            *)
(***************************************************************************)
\* The rows of an upload that were categorized into a list.
RowsOf(list) == {list[i].row_number : i \in DOMAIN list}

\* The row of an upload a provider request was made for.
RequestedFor(row) ==
  \E i \in DOMAIN provider_calls :
    provider_calls[i].address.guid = FileName \o <<"_">> \o IntToStr(row)

\* C15: the provider is called, and a USPS result attached, only for an
\* address that categorization returned as us_valid, in the single-address
\* endpoint and in the CSV upload.
C15_ProviderOnlyForUsValid ==
  /\ (/\ apc \in {"endpoint_usps", "endpoint_returned", "endpoint_failed"}
      /\ (provider_calls # <<>> \/ usps_result # <<>>))
       => ~categorized.raised /\ categorized.result.category = "us_valid"
  /\ apc \in {"csv_usps", "csv_returned"} =>
       /\ \A i \in DOMAIN upload.us_valid :
            upload.us_valid[i].categorization.category = "us_valid"
       /\ \A row \in RowsOf(upload.international) \cup RowsOf(upload.invalid) :
            /\ row \notin RowsOf(upload.us_valid)
            /\ ~RequestedFor(row)
            /\ row \notin RowsOf(upload.usps_results)
       /\ \A i \in DOMAIN provider_calls :
            \E row \in RowsOf(upload.us_valid) :
              provider_calls[i].address.guid = FileName \o <<"_">> \o IntToStr(row)

C15_Witness ==
  /\ apc = "csv_returned"
  /\ upload.international # <<>>
  /\ Len(upload.us_valid) = 1
  /\ Len(provider_calls) = 1
  /\ upload.usps_results[1].category = "us_usps_validated"

\* The provider's answer to a request of the log was HTTP 429.
IsRateLimited(call) == ~call.answer.exception /\ call.answer.status_code = 429

\* The provider's answer was another failure: another status, or no answer.
IsOtherError(call) ==
  call.answer.exception \/ call.answer.status_code \notin {200, 429}

\* C16: a request answered with HTTP 429 is retried, up to 3 attempts in
\* all; a request that failed in another way is not tried again.
C16_RetryOnlyOnRateLimit ==
  apc \in {"endpoint_usps", "endpoint_returned", "endpoint_failed"} =>
    /\ attempt <= max_retries
    /\ Len(provider_calls) <= max_retries
    /\ \A i \in DOMAIN provider_calls :
         /\ IsOtherError(provider_calls[i]) => i = Len(provider_calls)
         /\ IsRateLimited(provider_calls[i]) /\ i < max_retries =>
              \/ i < Len(provider_calls)
              \/ apc = "endpoint_usps"

(***************************************************************************)
(* Batches                                                                 *)
(***************************************************************************)
\* C17: process_csv_names returns one row per row of the table, blank name
\* cells included, and validate_addresses_batch one result per address, in
\* order, also for an address whose validation raised.
C17_NoRecordOmitted ==
  /\ pc = "csv_done" =>
       /\ response.success
       /\ response.processed_records = response.total_records
       /\ Len(response.results) = response.total_records
  /\ apc = "batch_returned" =>
       /\ Len(address_batch.results) = Len(address_batch.addresses)
       /\ \A i \in DOMAIN address_batch.addresses :
            address_batch.results[i].inLine1 = address_batch.addresses[i].line1

\* validate_addresses_batch returns one result per address, in order, also on
\* a batch holding an address whose validation raises.
AddressBatchComplete ==
  apc = "batch_returned" =>
    /\ Len(address_batch.results) = Len(address_batch.addresses)
    /\ \A i \in DOMAIN address_batch.addresses :
         address_batch.results[i].inLine1 = address_batch.addresses[i].line1

AddressBatchRaised ==
  /\ apc = "batch_returned"
  /\ Len(address_batch.addresses) = 2
  /\ address_batch.addresses[1].line1 = None
  /\ address_batch.results[1].errorMsg = <<NoneStripError>>
  /\ provider_calls # <<>>

(***************************************************************************)
(* The parser on canonical names                                           *)
(***************************************************************************)
\* The parser returned the five components it was given.
RoundTrips ==
  outcome.result = [prefix      |-> record.prefix,
                    first_name  |-> record.first_name,
                    middle_name |-> record.middle_name,
                    last_name   |-> record.last_name,
                    suffix      |-> record.suffix]

\* C18, as stated: parsing 'prefix first middle last suffix' returns the five
\* components, for every prefix of the active set, every suffix of the fixed
\* set and all name tokens.
C18_ParserRoundTrip == pc = "parsed" => RoundTrips

\* Every character of the token is a word character, or a period if allowed.
MadeOfWordChars(token, period_allowed) ==
  \A i \in DOMAIN token : IsWord(token[i]) \/ (period_allowed /\ token[i] = ".")

\* C18, amended: the round trip holds when the prefix is made of word
\* characters and the name tokens of word characters and periods.
C18_ParserRoundTripOnWordTokens ==
  (/\ pc = "parsed"
   /\ MadeOfWordChars(record.prefix, FALSE)
   /\ \A token \in {record.first_name, record.middle_name, record.last_name} :
        MadeOfWordChars(token, TRUE))
    => RoundTrips

C18_Witness ==
  /\ pc = "parsed"
  /\ name_validator.dictionary_loaded
  /\ record.prefix = <<"d", "r">>
  /\ record.middle_name = <<"J", ".">>
  /\ record.suffix = <<"i", "i", "i">>
  /\ RoundTrips

\* The decisions of a result are the heuristic ones: an organization decided
\* without a hint by the pattern matching, a parsed individual scored by the
\* fallback at 80 at most.
HeuristicDecision(rec, r) ==
  /\ r.parseStatus = "Organization" /\ rec.partyTypeCd # <<"O">>
       => r.validationMethod = "ai_pattern_matching"
  /\ IsParsedIndividual(r)
       => r.validationMethod = "ai_fallback" /\ r.confidenceScore <= Points(80)

\* C19: when no dictionary was loaded, every record is still answered with a
\* result that is not an error, and every decision of it is heuristic: an
\* unhinted organization has the method ai_pattern_matching, a parsed
\* individual has the method ai_fallback and scores 80 at most.
C19_DegradedModeHeuristic ==
  ~name_validator.dictionary_loaded
    => /\ pc # "raised"
       /\ pc = "returned"
            => /\ outcome.result.parseStatus # "Error"
               /\ HeuristicDecision(record, outcome.result)
       /\ \A i \in 1..Len(acc.results) :
             /\ acc.results[i].parseStatus # "Error"
             /\ HeuristicDecision(names[i], acc.results[i])

\* The gender of a result came out of the gender table: the caller gave none
\* and the first name is a key of the table.
DictionarySourcedGender(r) == r.inGenderCd = <<>> /\ GenderKnown(r)

\* The trust-tier vote read off a parsed result: the points before the cap, the
\* deterministic votes and the heuristic votes.
TrustTierVote(r) ==
  LET One(b)  == IF b THEN 1 ELSE 0
      first   == r.firstName # <<>>
      last    == r.lastName # <<>>
      gender  == r.outGenderCd # <<>>
  IN [ points |->
           50
         + (IF ~first THEN 0 ELSE IF FirstNameKnown(r) THEN 20 ELSE 10)
         + (IF ~last THEN 0 ELSE IF LastNameKnown(r) THEN 20 ELSE 10)
         + (IF ~gender THEN 0 ELSE IF DictionarySourcedGender(r) THEN 10 ELSE 5),
       det |->
           One(first /\ FirstNameKnown(r))
         + One(last /\ LastNameKnown(r))
         + One(gender /\ DictionarySourcedGender(r)),
       ai |->
           One(first /\ ~FirstNameKnown(r))
         + One(last /\ ~LastNameKnown(r))
         + One(gender /\ ~DictionarySourcedGender(r)) ]

\* C20: the confidence and method of every parsed individual are the trust-tier
\* vote: 50, plus 20 for a first name in the first-name dictionary or 10 for
\* another one, the same for the last name, plus 10 for a gender that came from
\* the gender table or 5 for another one; deterministic (cap 99) when the
\* dictionary votes exceed the heuristic ones, hybrid (cap 90) when they are
\* equal and positive, ai_fallback (cap 80) otherwise.
C20_ConfidenceIsTrustTierVote ==
  \A r \in AllResults :
     IsParsedIndividual(r) =>
       LET vote == TrustTierVote(r)
       IN IF vote.det > vote.ai
          THEN /\ r.validationMethod = "deterministic"
               /\ r.confidenceScore = Points(Min(vote.points, 99))
          ELSE IF vote.det = vote.ai /\ vote.det > 0
          THEN /\ r.validationMethod = "hybrid"
               /\ r.confidenceScore = Points(Min(vote.points, 90))
          ELSE /\ r.validationMethod = "ai_fallback"
               /\ r.confidenceScore = Points(Min(vote.points, 80))

\* The fields of a result that hold a component of the name.
ComponentFields ==
  { "prefix", "firstName", "firstNameStd", "middleName", "lastName", "suffix",
    "prefixLt", "firstNameLt", "middleNameLt", "lastNameLt", "suffixLt" }

\* The result of an individual whose parsing was skipped, with its gender.
IsNotParsed(r, gender) ==
  /\ \A f \in ComponentFields : r[f] = None
  /\ r.confidenceScore = Points(80)
  /\ r.validationMethod = "no_parse"
  /\ r.parseStatus = "Not Parsed"
  /\ r.outGenderCd = gender

\* C21 as claimed: an individual whose parseInd is not 'Y' is not parsed, and
\* its outGenderCd is the genderCd of the record.
C21_NotParsedUnlessY ==
  pc = "returned" /\ outcome.result.partyTypeCd = <<"I">>
                  /\ record.parseInd # <<"Y">>
    => IsNotParsed(outcome.result, record.genderCd)

\* C21 amended: an individual whose parseInd, stripped and upper-cased, is
\* neither empty nor 'Y' is not parsed: every component field is null, the
\* score is 80, the method no_parse, the status 'Not Parsed', and outGenderCd is
\* the genderCd of the record stripped and upper-cased.
C21_NotParsedUnlessYOrEmpty ==
  pc = "returned" /\ outcome.result.partyTypeCd = <<"I">>
                  /\ StrUpper(StrStrip(record.parseInd)) \notin {<<>>, <<"Y">>}
    => IsNotParsed(outcome.result, StrUpper(StrStrip(record.genderCd)))

\* C21 witness: parseInd 'n' and genderCd 'm' on a two-token name, returned
\* unparsed with outGenderCd 'M'.
C21_Witness ==
  /\ pc = "returned"
  /\ record.parseInd = <<"n">>
  /\ record.genderCd = <<"m">>
  /\ record.fullName = StrJoin(<<Bill, Smith>>)
  /\ outcome.result.partyTypeCd = <<"I">>
  /\ IsNotParsed(outcome.result, <<"M">>)

\* A record that gives no party type: partyTypeCd, stripped and upper-cased,
\* is neither 'O' nor 'I'.
Unhinted(rec) ==
  rec.partyTypeCd # None /\ StrUpper(StrStrip(rec.partyTypeCd)) \notin {<<"O">>, <<"I">>}

\* The name of a record as the rules read it: stripped and lower-cased.
RuleName(rec) == StrLower(StrStrip(rec.fullName))

HasCompanySuffix(rec) ==
  \E suffix \in name_validator.company_suffixes_set : Contains(suffix, RuleName(rec))

HasBusinessWord(rec) ==
  Range(StrSplit(RuleName(rec))) \cap name_validator.business_words_set # {}

HasKnownFirstAndLast(rec) ==
  LET tokens == StrSplit(RuleName(rec))
  IN /\ Len(tokens) >= 2
     /\ tokens[1] \in name_validator.first_names_set
     /\ tokens[Len(tokens)] \in name_validator.surnames_set

IsOrganization(r, points, method) ==
  /\ r.partyTypeCd = <<"O">>
  /\ r.parseStatus = "Organization"
  /\ r.confidenceScore = Points(points)
  /\ r.validationMethod = method

\* C22: with a dictionary loaded and no hint, the first rule satisfied decides:
\* a company suffix inside the name gives an organization (95,
\* deterministic_suffix) whatever else holds; else a business word among the
\* words of the name gives an organization (92, deterministic_business_word);
\* else a known first token and a known last token give an individual; else
\* the name is an organization exactly when the heuristic score exceeds 10.
C22_FirstRuleWins ==
  pc = "returned" /\ name_validator.dictionary_loaded /\ Unhinted(record)
                  /\ RuleName(record) # <<>>
    => IF HasCompanySuffix(record)
       THEN IsOrganization(outcome.result, 95, "deterministic_suffix")
       ELSE IF HasBusinessWord(record)
       THEN IsOrganization(outcome.result, 92, "deterministic_business_word")
       ELSE IF HasKnownFirstAndLast(record)
       THEN outcome.result.partyTypeCd = <<"I">>
       ELSE /\ outcome.result.partyTypeCd = <<"O">> <=> org_score(RuleName(record)) > 10
            /\ outcome.result.partyTypeCd = <<"O">>
                 => outcome.result.validationMethod = "ai_pattern_matching"

\* C22 witness: 'Mary LLC Clinic Smith' satisfies the three dictionary rules and
\* is decided by the company suffix.
C22_Witness ==
  /\ pc = "returned"
  /\ name_validator.dictionary_loaded
  /\ Unhinted(record)
  /\ HasCompanySuffix(record)
  /\ HasBusinessWord(record)
  /\ HasKnownFirstAndLast(record)
  /\ IsOrganization(outcome.result, 95, "deterministic_suffix")

\* The zip of an address matches one of the US patterns.
MatchesUsPattern(a) ==
  \E i \in DOMAIN us_patterns : FullMatch(us_patterns[i], StrStrip(a.zipCd))

\* The zip of an address, upper-cased, matches one of the international patterns.
MatchesInternationalPattern(a) ==
  \E i \in DOMAIN international_patterns :
     FullMatch(international_patterns[i].pattern, StrUpper(StrStrip(a.zipCd)))

\* The state of an address is no state name, variant or code.
HasInvalidState(a) == ~normalize_state(a.stateCd).is_valid

\* C23: for a US address with its required fields present the class of the zip
\* decides before the state is looked at: a zip that matches no US pattern but
\* an international one gives 'international', invalid state or not, and a zip
\* that matches no pattern gives 'invalid' with the one issue 'Unrecognized
\* postal code format'.
C23_ZipClassBeforeState ==
  apc = "categorized" /\ HasDomesticCountry(address) /\ BlankFields(address) = {}
                      /\ ~MatchesUsPattern(address)
    => /\ ~categorized.raised
       /\ IF MatchesInternationalPattern(address)
          THEN /\ categorized.result.category = "international"
               /\ categorized.result.issues = <<>>
          ELSE /\ categorized.result.category = "invalid"
               /\ categorized.result.issues = << <<"Unrecognized postal code format">> >>

\* C23 witness: a Canadian postal code under the state 'zz' is international,
\* and so reported without an issue about the state.
C23_Witness ==
  /\ apc = "categorized"
  /\ HasDomesticCountry(address)
  /\ BlankFields(address) = {}
  /\ HasInvalidState(address)
  /\ address.zipCd = <<"M","5","V"," ","3","A","8">>
  /\ categorized.result.category = "international"

\* The state, trimmed and in lower case, is a 2-letter code, a state name or a
\* listed variant, with or without its periods and commas.
IsStateInput(state) ==
  LET cleaned == StrLower(StrStrip(state))
  IN \/ IsStateCode(cleaned)
     \/ cleaned \in DOMAIN state_name_to_code
     \/ StrRemove(StrRemove(cleaned, "."), ",") \in DOMAIN state_name_to_code

\* The code a state input stands for.
StateCodeOf(state) ==
  LET cleaned == StrLower(StrStrip(state))
  IN IF IsStateCode(cleaned) THEN StrUpper(cleaned)
     ELSE IF cleaned \in DOMAIN state_name_to_code THEN state_name_to_code[cleaned]
     ELSE state_name_to_code[StrRemove(StrRemove(cleaned, "."), ",")]

AllDigits(s) == \A i \in DOMAIN s : s[i] \in Digits

\* Five digits, or five digits, a hyphen and four digits.
IsStrictZip(zip) ==
  \/ Len(zip) = 5 /\ AllDigits(zip)
  \/ /\ Len(zip) = 10
     /\ zip[6] = "-"
     /\ AllDigits(SubSeq(zip, 1, 5))
     /\ AllDigits(SubSeq(zip, 7, 10))

\* Letters, white space, periods, hyphens and apostrophes only.
IsCityText(city) ==
  \A i \in DOMAIN city :
     city[i] \in LowerLetters \cup UpperLetters \cup Whitespace \cup {".", "-", "'"}

\* The conditions of a valid US address, read off the address.
IsUsFormat(a) ==
  /\ HasDomesticCountry(a)
  /\ BlankFields(a) = {}
  /\ IsStateInput(a.stateCd)
  /\ IsStrictZip(StrStrip(a.zipCd))
  /\ Len(StrStrip(a.line1)) >= 3
  /\ Len(StrStrip(a.city)) >= 2
  /\ IsCityText(StrStrip(a.city))

\* C24: a result of categorize_address is us_valid exactly when the country is
\* US, USA or empty, the four required fields are not blank, the state stands
\* for a valid 2-letter code, the zip is 5 digits or 5 digits, a hyphen and 4
\* digits, line1 has 3 characters at least and the city 2 at least, all of them
\* letters, spaces, periods, hyphens or apostrophes; the state of a us_valid
\* result is normalized_state, the code the state stands for.
C24_UsValidIff ==
  apc = "categorized" /\ ~categorized.raised
    => /\ categorized.result.category = "us_valid" <=> IsUsFormat(address)
       /\ categorized.result.category = "us_valid"
            => /\ categorized.result.state = categorized.result.normalized_state
               /\ categorized.result.state = StateCodeOf(address.stateCd)

\* C24 witness: 'n. carolina' under the country 'usa' is us_valid with the
\* state NC.
C24_Witness ==
  /\ apc = "categorized"
  /\ address.stateCd = <<"n","."," ","c","a","r","o","l","i","n","a">>
  /\ address.countryCd = <<"u","s","a">>
  /\ IsUsFormat(address)
  /\ categorized.result.category = "us_valid"
  /\ categorized.result.state = <<"N","C">>

\* The conditions of validate_us_format an address fails, each by the reason
\* the issues give for it.
FailedUsChecks(a) ==
  {c \in {"Invalid US state: '", "ZIP code must be 5 digits or ZIP+4 format",
           "Street address too short", "City name too short",
           "City contains invalid characters"} :
     \/ c = "Invalid US state: '" /\ ~IsStateInput(a.stateCd)
     \/ c = "ZIP code must be 5 digits or ZIP+4 format" /\ ~IsStrictZip(StrStrip(a.zipCd))
     \/ c = "Street address too short" /\ Len(StrStrip(a.line1)) < 3
     \/ c = "City name too short" /\ Len(StrStrip(a.city)) < 2
     \/ c = "City contains invalid characters" /\ ~IsCityText(StrStrip(a.city))}

\* The issues that begin with the reason c.
IssuesFor(c, issues) == {i \in DOMAIN issues : issues[i] # <<>> /\ issues[i][1] = c}

\* An address that reaches the US checks: a US country, no blank field, a zip
\* of a US pattern.
ReachesUsChecks(a) ==
  HasDomesticCountry(a) /\ BlankFields(a) = {} /\ MatchesUsPattern(a)

\* C25: the issues of an address that fails the US checks hold one reason for
\* every condition it fails among the validity of the state, the strict zip
\* format, the length of line1, the length of the city and the characters of
\* the city.
C25_EveryFailingReason ==
  apc = "categorized" /\ ReachesUsChecks(address) /\ FailedUsChecks(address) # {}
    => /\ ~categorized.raised
       /\ categorized.result.category = "invalid"
       /\ \A c \in FailedUsChecks(address) :
             Cardinality(IssuesFor(c, categorized.result.issues)) = 1

\* Nine digits and no hyphen.
IsNineDigits(zip) == Len(zip) = 9 /\ AllDigits(zip)

\* C30: a zip of nine digits without a hyphen is a US zip to analyze_zip_code
\* and never gives us_valid: a US address with its required fields present and
\* such a zip is invalid, with the issue 'ZIP code must be 5 digits or ZIP+4
\* format'.
C30_NineDigitZipNeverValid ==
  apc = "categorized" /\ HasDomesticCountry(address) /\ BlankFields(address) = {}
                      /\ IsNineDigits(StrStrip(address.zipCd))
    => /\ analyze_zip_code(address.zipCd).type = "us"
       /\ ~categorized.raised
       /\ categorized.result.category = "invalid"
       /\ IssuesFor("ZIP code must be 5 digits or ZIP+4 format",
                    categorized.result.issues) # {}

\* C30 witness: an address with nothing wrong but its zip of nine digits, which
\* is the one issue.
C30_Witness ==
  /\ apc = "categorized"
  /\ ReachesUsChecks(address)
  /\ IsNineDigits(address.zipCd)
  /\ FailedUsChecks(address) = {"ZIP code must be 5 digits or ZIP+4 format"}
  /\ categorized.result.category = "invalid"
  /\ categorized.result.issues = << <<"ZIP code must be 5 digits or ZIP+4 format">> >>

\* The provider answered success, with address data and the confirmation
\* code Y or D.
ConfirmedDeliverable(exchange) ==
  /\ exchange.called
  /\ ~exchange.answer.exception
  /\ exchange.answer.status_code = 200
  /\ exchange.answer.json.address # <<>>
  /\ exchange.answer.json.additionalInfo.DPVConfirmation \in {"Y", "D"}

\* The provider answered not found (404) or malformed request (400).
Refused(exchange) ==
  exchange.called /\ ~exchange.answer.exception /\ exchange.answer.status_code \in {400, 404}

\* A required field of the address is null, empty or white space.
LacksRequiredField(a) ==
  \E f \in {"line1", "city", "stateCd", "zipCd"} : a[f] = None \/ AllWhitespace(a[f])

\* The exchanges of a batch in which the validation request was sent.
SentRequests ==
  {i \in DOMAIN address_batch.calls : address_batch.calls[i].called}

\* C26: the mapping of AddressValidator.validate_single_address, over the
\* addresses of a batch. A result has mailabilityScore '1' exactly when the
\* provider answered success with address data and the confirmation code Y or
\* D, and then its match code is A1 or B1 and its errorMsg null; an answer of
\* not found or malformed request gives, after the one request, mailabilityScore
\* '0', matchCode 'E1' and the reason as errorMsg; no request is sent without
\* credentials, without an access token or for an address that lacks a
\* required field.
C26_ProviderResponseMapping ==
  apc \in {"batch_loop", "batch_returned"} =>
    /\ Len(address_batch.calls) = Len(address_batch.results)
    /\ Len(provider_calls) = Cardinality(SentRequests)
    /\ \A i \in DOMAIN address_batch.results :
          LET r        == address_batch.results[i]
              a        == address_batch.addresses[i]
              exchange == address_batch.calls[i]
          IN /\ r.mailabilityScore = "1" <=> ConfirmedDeliverable(exchange)
             /\ r.mailabilityScore = "1"
                  => /\ r.errorMsg = None
                     /\ r.matchCode =
                          IF exchange.answer.json.additionalInfo.DPVConfirmation = "Y"
                          THEN "A1" ELSE "B1"
             /\ Refused(exchange)
                  => /\ r.mailabilityScore = "0"
                     /\ r.matchCode = "E1"
                     /\ r.errorMsg = IF exchange.answer.status_code = 404
                                     THEN <<"Address not found">>
                                     ELSE <<"Invalid address format">>
             /\ ~configured \/ ~exchange.token_ok \/ LacksRequiredField(a)
                  => ~exchange.called

\* C26 witness: a batch of two, the first address confirmed with code D and
\* returned as B1, the second with an empty line1 and never sent.
C26_Witness ==
  /\ apc = "batch_returned"
  /\ Len(address_batch.results) = 2
  /\ address_batch.calls[1].answer.status_code = 200
  /\ address_batch.results[1].mailabilityScore = "1"
  /\ address_batch.results[1].matchCode = "B1"
  /\ address_batch.addresses[2].line1 = <<>>
  /\ address_batch.calls[2].token_ok
  /\ ~address_batch.calls[2].called
  /\ Len(provider_calls) = 1

\* C27: any two validation calls made behind the shared limiter begin at least
\* min_interval apart, also when several requests are inside wait_if_needed
\* at once.
C27_CallsSeparated ==
  \A i, j \in DOMAIN call_times :
     i < j => call_times[j] - call_times[i] >= min_interval

\* What C28 says of one parsed individual, with the most points an ai_fallback
\* result may have.
HighOnlyDeterministic(r, fallback_most) ==
  /\ r.confidenceScore >= Points(90) => r.validationMethod = "deterministic"
  /\ r.validationMethod = "hybrid"
       => r.confidenceScore >= Points(70) /\ r.confidenceScore <= Points(80)
  /\ r.validationMethod = "ai_fallback" => r.confidenceScore <= Points(fallback_most)
  /\ r.errorMessage # <<"Probably Valid">>
  /\ r.parseStatus = "Warning" => r.validationMethod = "ai_fallback"

\* C28 as claimed: for every parsed individual, 90 points or more come only
\* with the method deterministic, a hybrid result has between 70 and 80 and an
\* ai_fallback result 75 at most, 'Probably Valid' is never the message and
\* 'Warning' comes only with ai_fallback.
C28_HighOnlyDeterministic ==
  \A r \in AllResults : IsParsedIndividual(r) => HighOnlyDeterministic(r, 75)

\* C28 amended: the same with 80 as the most an ai_fallback result has.
C28_HighOnlyDeterministicFallback80 ==
  \A r \in AllResults : IsParsedIndividual(r) => HighOnlyDeterministic(r, 80)

\* C28 witness: one dictionary vote against two heuristic ones, ai_fallback at
\* 80 points.
C28_Witness ==
  /\ pc = "returned"
  /\ IsParsedIndividual(outcome.result)
  /\ DictionaryVotes(outcome.result) = 1
  /\ HeuristicVotes(outcome.result) = 2
  /\ outcome.result.validationMethod = "ai_fallback"
  /\ outcome.result.confidenceScore = Points(80)

\* The number of results whose validationMethod is one of the given methods.
ResultsWithMethodIn(results, methods) ==
  Cardinality({i \in DOMAIN results : results[i].validationMethod \in methods})

\* C29: in the response of validate_names the four counters of
\* validation_methods sum to total_processed, each of deterministic, hybrid and
\* ai_fallback counts the results of that method, and error counts every other
\* result, organization and 'no_parse' results included.
C29_MethodCountsSumToTotal ==
  pc = "done" =>
    LET stats   == response.processing_stats
        counted == stats.validation_methods
        others  == {"deterministic", "hybrid", "ai_fallback"}
    IN /\ DOMAIN counted = {"deterministic", "hybrid", "ai_fallback", "error"}
       /\ stats.total_processed = Len(names)
       /\ counted.deterministic + counted.hybrid + counted.ai_fallback
            + counted.error = stats.total_processed
       /\ \A m \in others : counted[m] = ResultsWithMethodIn(response.names, {m})
       /\ counted.error =
            Len(response.names) - ResultsWithMethodIn(response.names, others)

\* validate_names has returned for a full batch holding an organization result
\* and a 'no_parse' result, both counted under 'error'.
C29_Witness ==
  /\ pc = "done"
  /\ Len(names) = MaxBatch
  /\ \E i \in DOMAIN response.names :
       /\ response.names[i].partyTypeCd = <<"O">>
       /\ response.names[i].validationMethod
            \notin {"deterministic", "hybrid", "ai_fallback", "error"}
  /\ \E i \in DOMAIN response.names :
       response.names[i].validationMethod = "no_parse"
  /\ response.processing_stats.validation_methods.error = MaxBatch

====
